---- MODULE Spec2Model ----
(***************************************************************************)
(* A model of the tstorage engine: the storage orchestrator of             *)
(* storage.go (NewStorage, InsertRows, getPartition, SelectDataPoints,     *)
(* Close, flushPartitions, flush), the memory partition and its per-series *)
(* buffer (memoryPartition, metric), the disk partition and the partition  *)
(* list.                                                                   *)
(***************************************************************************)
EXTENDS Integers, Sequences, FiniteSets, TLC

\* ------------------------------------------------------------------ bounds
\* Timestamps of inserted rows are 1..MaxTimestamp.
MaxTimestamp == 3
\* Series keys (the result of marshalMetricName) are 1..NumSeries.
NumSeries == 1
\* Total number of rows handed to InsertRows over a behaviour.
MaxRows == 4
\* Longest batch handed to one InsertRows call.
MaxBatch == 2
\* Number of goroutines that call InsertRows.
NumWriters == 2
\* Number of storages opened on the data path, one after the other.
MaxInstances == 2
\* Timestamps of the rows of the one-row calls are 1..MaxTimestampOne.
MaxTimestampOne == 2
\* Number of goroutines that are inside insertRows of one partition at once.
NumCallers == 2
\* Total number of rows handed to those insertRows calls over a behaviour.
MaxSharedRows == 3
\* Number of flushPartitions runs that are in progress at once.
NumFlushers == 2
\* The most nodes the list allocates while flushPartitions runs are looked at.
MaxFlushNodes == 5

\* ------------------------------------------------------- program constants
\* Capacity of workersLimitCh (cgroup.AvailableCPUs() of the host).
defaultWorkersLimit == 1
\* Number of newest partitions a flush leaves alone.
defaultWritablePartitionsNum == 2
\* The partition duration of the storage, in units of the timestamp precision.
partitionDuration == 1
\* Capacity the points slice of a metric is made with.
pointsCap == 1000

Series == 1..NumSeries
Timestamps == 1..MaxTimestamp
Writers == 1..NumWriters
Callers == 1..NumCallers
Flushers == 1..NumFlushers

\* ----------------------------------------------------------- data points
\* What a read of a nil *DataPoint slot (beyond len, within cap) yields.
NilPoint == [Timestamp |-> -1, Value |-> 0]

DataPoint(ts, v) == [Timestamp |-> ts, Value |-> v]

\* sort.Search(n, f): f is given as the function [0..n-1 -> BOOLEAN].
RECURSIVE sortSearchLoop(_, _, _)
sortSearchLoop(i, j, f) ==
    IF i < j
    THEN LET h == (i + j) \div 2
         IN  IF ~f[h] THEN sortSearchLoop(h + 1, j, f)
                      ELSE sortSearchLoop(i, h, f)
    ELSE i

sortSearch(n, f) == sortSearchLoop(0, n, f)

\* ------------------------------------------------------ per-series buffer
newMetric ==
    [size |-> 0, minTimestamp |-> 0, maxTimestamp |-> 0,
     points |-> <<>>, outOfOrderPoints |-> <<>>]

\* insertPoint without the comparison with the last in-order point: every
\* point is appended to points. C8 fails on it.
insertPointAppendAlways(m, point) ==
    [m EXCEPT !.points = Append(@, point),
              !.minTimestamp = IF m.size = 0 THEN point.Timestamp ELSE @,
              !.maxTimestamp = point.Timestamp,
              !.size = @ + 1]

insertPoint(m, point) ==
    IF m.size = 0
    THEN [m EXCEPT !.points = Append(@, point),
                   !.minTimestamp = point.Timestamp,
                   !.maxTimestamp = point.Timestamp,
                   !.size = @ + 1]
    ELSE IF m.points[m.size].Timestamp < point.Timestamp
    THEN [m EXCEPT !.points = Append(@, point),
                   !.maxTimestamp = point.Timestamp,
                   !.size = @ + 1]
    ELSE [m EXCEPT !.outOfOrderPoints = Append(@, point)]

\* m.points[startIdx:endIdx] of a slice of length Len(pts) and capacity
\* pointsCap: a panic when the bounds are out of range, nil slots beyond len.
reslice(pts, startIdx, endIdx) ==
    IF startIdx > endIdx \/ endIdx > pointsCap
    THEN [points |-> <<>>, err |-> "panic"]
    ELSE [points |-> [k \in 1..(endIdx - startIdx) |->
                        IF startIdx + k <= Len(pts) THEN pts[startIdx + k]
                                                    ELSE NilPoint],
          err |-> "nil"]

selectPoints(m, start, end) ==
    LET size == m.size
        startIdx ==
            IF start <= m.minTimestamp THEN 0
            ELSE sortSearch(size, [i \in 0..(size - 1) |->
                                      m.points[i + 1].Timestamp >= start])
        endIdx ==
            IF end >= m.maxTimestamp THEN size
            ELSE sortSearch(size, [i \in 0..(size - 1) |->
                                      m.points[i + 1].Timestamp < end]) + 1
    IN  reslice(m.points, startIdx, endIdx)

\* ------------------------------------------------------- memory partition
\* A row is [Metric, Timestamp, Value]; Metric is the series key.
Row(metric, ts, v) == [Metric |-> metric, Timestamp |-> ts, Value |-> v]

newMemoryPartition ==
    [kind |-> "mem", metrics |-> <<>>, numPoints |-> 0,
     minT |-> 0, maxT |-> 0, once |-> FALSE]

\* The metrics map after getMetric(name): the entry is created when missing.
getMetric(metrics, name) ==
    [s \in (DOMAIN metrics) \cup {name} |->
        IF s \in DOMAIN metrics THEN metrics[s] ELSE newMetric]

SeqMin(ts) == CHOOSE x \in {ts[i] : i \in 1..Len(ts)} :
                  \A i \in 1..Len(ts) : x <= ts[i]

\* The loop of insertRows over rows[k..]: st carries the partition's metrics
\* map, the outdated rows, the running maximum and the number of stored rows.
RECURSIVE insertRowsLoop(_, _, _, _)
insertRowsLoop(rows, k, minT, st) ==
    IF k > Len(rows) THEN st
    ELSE LET row == rows[k]
         IN  IF row.Timestamp < minT
             THEN insertRowsLoop(rows, k + 1, minT,
                      [st EXCEPT !.outdatedRows = Append(@, row)])
             ELSE LET ms == getMetric(st.metrics, row.Metric)
                      mt == insertPoint(ms[row.Metric],
                                        DataPoint(row.Timestamp, row.Value))
                  IN  insertRowsLoop(rows, k + 1, minT,
                          [st EXCEPT
                             !.metrics = [ms EXCEPT ![row.Metric] = mt],
                             !.maxTimestamp =
                                 IF row.Timestamp > @ THEN row.Timestamp ELSE @,
                             !.rowsNum = @ + 1])

\* insertRows that adds the length of the batch to numPoints, outdated rows
\* included. C34 fails on it.
insertRowsCountsBatch(m, rows) ==
    IF Len(rows) = 0
    THEN [part |-> m, outdatedRows |-> <<>>, err |-> "no rows given"]
    ELSE LET minT == IF m.once THEN m.minT
                     ELSE SeqMin([i \in 1..Len(rows) |-> rows[i].Timestamp])
             st == insertRowsLoop(rows, 1, minT,
                       [metrics |-> m.metrics, outdatedRows |-> <<>>,
                        maxTimestamp |-> rows[1].Timestamp, rowsNum |-> 0])
         IN  [part |-> [m EXCEPT !.once = TRUE,
                                 !.minT = minT,
                                 !.metrics = st.metrics,
                                 !.numPoints = @ + Len(rows),
                                 !.maxT = IF @ < st.maxTimestamp
                                          THEN st.maxTimestamp ELSE @],
              outdatedRows |-> st.outdatedRows,
              err |-> "nil"]

\* insertRows that takes no row for outdated: every row is stored. C33 fails
\* on it.
insertRowsStoresAll(m, rows) ==
    IF Len(rows) = 0
    THEN [part |-> m, outdatedRows |-> <<>>, err |-> "no rows given"]
    ELSE LET minT == IF m.once THEN m.minT
                     ELSE SeqMin([i \in 1..Len(rows) |-> rows[i].Timestamp])
             st == insertRowsLoop(rows, 1, 0,
                       [metrics |-> m.metrics, outdatedRows |-> <<>>,
                        maxTimestamp |-> rows[1].Timestamp, rowsNum |-> 0])
         IN  [part |-> [m EXCEPT !.once = TRUE,
                                 !.minT = minT,
                                 !.metrics = st.metrics,
                                 !.numPoints = @ + st.rowsNum,
                                 !.maxT = IF @ < st.maxTimestamp
                                          THEN st.maxTimestamp ELSE @],
              outdatedRows |-> st.outdatedRows,
              err |-> "nil"]

\* memoryPartition.insertRows: the partition after the call, the outdated
\* rows and the error. The result of wal.append is not looked at.
insertRows(m, rows) ==
    IF Len(rows) = 0
    THEN [part |-> m, outdatedRows |-> <<>>, err |-> "no rows given"]
    ELSE LET minT == IF m.once THEN m.minT
                     ELSE SeqMin([i \in 1..Len(rows) |-> rows[i].Timestamp])
             st == insertRowsLoop(rows, 1, minT,
                       [metrics |-> m.metrics, outdatedRows |-> <<>>,
                        maxTimestamp |-> rows[1].Timestamp, rowsNum |-> 0])
         IN  [part |-> [m EXCEPT !.once = TRUE,
                                 !.minT = minT,
                                 !.metrics = st.metrics,
                                 !.numPoints = @ + st.rowsNum,
                                 !.maxT = IF @ < st.maxTimestamp
                                          THEN st.maxTimestamp ELSE @],
              outdatedRows |-> st.outdatedRows,
              err |-> "nil"]

\* memoryPartition.selectDataPoints: the points, and the metrics map after
\* the getMetric of the call.
memSelectDataPoints(m, metric, start, end) ==
    LET ms == getMetric(m.metrics, metric)
        r == selectPoints(ms[metric], start, end)
    IN  [points |-> r.points, err |-> r.err,
         part |-> [m EXCEPT !.metrics = ms]]

\* --------------------------------------------------------- disk partition
dataFileName == "data"
metaFileName == "meta.json"

\* The compressor writes one unit per point; a unit of the meta file is no
\* start of a compressed stream.
compress(points) ==
    [i \in 1..Len(points) |->
        [gz |-> TRUE, ts |-> points[i].Timestamp, v |-> points[i].Value]]

jsonBytes(meta) == << [gz |-> FALSE, ts |-> 0, v |-> 0] >>

\* decompressor.read of the i-th point of the stream that starts at offset.
canRead(bytes, offset, i) ==
    /\ offset + i <= Len(bytes)
    /\ bytes[offset + i].gz

readPoint(bytes, offset, i) ==
    DataPoint(bytes[offset + i].ts, bytes[offset + i].v)

\* openDiskPartition: the meta file is opened, mapped and decoded.
\* openDiskPartition that opens the data file and gives ErrNoDataPoints for
\* an empty one. C40 fails on it.
openErrOnEmptyData(dir) ==
    IF Len(dir.data) = 0 THEN "ErrNoDataPoints" ELSE "nil"

\* The error of openDiskPartition on the files of a directory: the file it
\* opens and maps is the meta file, and a file of size 0 cannot be mapped.
openErr(dir) ==
    IF Len(jsonBytes(dir.meta)) = 0 THEN "failed to perform mmap" ELSE "nil"

\* from and data are auxiliary: the series of the memory partition the
\* directory was written from (empty for a directory found at start), and
\* the data file of the directory as it was when the partition was opened.
openDiskPartition(dirPath, dir, from) ==
    [kind |-> "disk", dirPath |-> dirPath, meta |-> dir.meta,
     mappedFile |-> jsonBytes(dir.meta), from |-> from, data |-> dir.data]

\* The read loop of diskPartition.selectDataPoints over the points i..n.
RECURSIVE diskReadLoop(_, _, _, _, _, _, _)
diskReadLoop(bytes, offset, i, n, start, end, acc) ==
    IF i > n THEN [points |-> acc, err |-> "nil"]
    ELSE IF ~canRead(bytes, offset, i)
    THEN [points |-> <<>>, err |-> "read failed"]
    ELSE LET point == readPoint(bytes, offset, i)
         IN  IF point.Timestamp < start
             THEN diskReadLoop(bytes, offset, i + 1, n, start, end, acc)
             ELSE IF point.Timestamp >= end
             THEN [points |-> acc, err |-> "nil"]
             ELSE diskReadLoop(bytes, offset, i + 1, n, start, end,
                               Append(acc, point))

diskSelectDataPoints(d, metric, start, end) ==
    IF metric \notin DOMAIN d.meta.Metrics
    THEN [points |-> <<>>, err |-> "ErrNoDataPoints"]
    ELSE LET mt == d.meta.Metrics[metric]
         IN  IF ~canRead(d.mappedFile, mt.Offset, 1)
             THEN [points |-> <<>>, err |-> "read failed"]
             ELSE diskReadLoop(d.mappedFile, mt.Offset, 1, mt.NumDataPoints,
                               start, end, <<>>)

\* insertRows of a disk partition that counts the rows into its meta and
\* returns nil. C16 fails on it.
diskInsertRowsCounted(d, rows) ==
    [part |-> [d EXCEPT !.meta.NumDataPoints = @ + Len(rows)],
     outdatedRows |-> <<>>, err |-> "nil"]

\* diskPartition.insertRows: the error, whatever the rows are.
diskInsertRows(d, rows) ==
    [part |-> d, outdatedRows |-> <<>>,
     err |-> "can't insert rows into disk partition"]

\* ------------------------------------------------------ partition (both)
minTimestamp(p) == IF p.kind = "mem" THEN p.minT ELSE p.meta.MinTimestamp
maxTimestamp(p) == IF p.kind = "mem" THEN p.maxT ELSE p.meta.MaxTimestamp
size(p) == IF p.kind = "mem" THEN p.numPoints ELSE p.meta.NumDataPoints
active(p) ==
    IF p.kind = "mem" THEN p.maxT - p.minT < partitionDuration ELSE FALSE

\* --------------------------------------------------------- partition list
\* The list is the sequence of its nodes from head to tail; a node holds the
\* index of its partition in the heap h.
samePartitions(x, y) == minTimestamp(x) = minTimestamp(y)

\* Position of the first node from head whose partition is the same as the
\* target, 0 when there is none.
findNode(list, h, target) ==
    LET hits == {i \in 1..Len(list) : samePartitions(h[list[i]], h[target])}
    IN  IF hits = {} THEN 0
        ELSE CHOOSE i \in hits : \A j \in hits : i <= j

listInsert(list, pid) == <<pid>> \o list

listRemove(list, h, target) ==
    IF Len(list) <= 0 THEN [list |-> list, err |-> "empty partition"]
    ELSE LET i == findNode(list, h, target)
         IN  IF i = 0
             THEN [list |-> list, err |-> "the given partition was not found"]
             ELSE [list |-> SubSeq(list, 1, i - 1) \o
                            SubSeq(list, i + 1, Len(list)),
                   err |-> "nil"]

listSwap(list, h, old, new) ==
    IF Len(list) <= 0 THEN [list |-> list, err |-> "empty partition"]
    ELSE LET i == findNode(list, h, old)
         IN  IF i = 0
             THEN [list |-> list, err |-> "the given partition was not found"]
             ELSE [list |-> [list EXCEPT ![i] = new], err |-> "nil"]

\* ------------------------------------------------------------------ flush
\* The Range loop of flush over the series ks[k..] of the memory partition:
\* the data file grows by the compressed in-order points of each series and
\* the metadata map records where they start.
RECURSIVE flushRange(_, _, _, _)
flushRange(m, ks, k, st) ==
    IF k > Len(ks) THEN st
    ELSE LET mt == m.metrics[ks[k]]
         IN  flushRange(m, ks, k + 1,
                 [data |-> st.data \o compress(mt.points),
                  metrics |->
                      [s \in (DOMAIN st.metrics) \cup {ks[k]} |->
                          IF s = ks[k]
                          THEN [Offset |-> Len(st.data),
                                MinTimestamp |-> mt.minTimestamp,
                                MaxTimestamp |-> mt.maxTimestamp,
                                NumDataPoints |-> mt.size]
                          ELSE st.metrics[s]]])

\* The keys of a set of series in ascending order: the order in which
\* m.metrics.Range is taken to visit them (sync.Map fixes none; the order
\* decides only which offset each series gets).
RECURSIVE sortedKeys(_)
sortedKeys(S) ==
    IF S = {} THEN <<>>
    ELSE LET x == CHOOSE y \in S : \A z \in S : y <= z
         IN  <<x>> \o sortedKeys(S \ {x})

\* storage.flush: the directory (data file and meta file) written for m.
flush(m) ==
    LET st == flushRange(m, sortedKeys(DOMAIN m.metrics), 1,
                         [data |-> <<>>, metrics |-> <<>>])
    IN  [data |-> st.data,
         meta |-> [MinTimestamp |-> minTimestamp(m),
                   MaxTimestamp |-> maxTimestamp(m),
                   NumDataPoints |-> size(m),
                   Metrics |-> st.metrics]]

\* The directory name p-<minT>-<maxT>.
dirName(m) == <<minTimestamp(m), maxTimestamp(m)>>

\* The loop of flushPartitions over the nodes chain[k..] the iterator walks;
\* st carries the list, the heap, the data path and the error.
RECURSIVE flushLoop(_, _, _, _)
flushLoop(chain, k, inMem, st) ==
    IF k > Len(chain) THEN st
    ELSE IF k <= defaultWritablePartitionsNum
    THEN flushLoop(chain, k + 1, inMem, st)
    ELSE LET part == st.heap[chain[k]]
         IN  IF part.kind # "mem" THEN flushLoop(chain, k + 1, inMem, st)
             ELSE IF inMem
             THEN LET r == listRemove(st.list, st.heap, chain[k])
                  IN  IF r.err # "nil"
                      THEN [st EXCEPT !.err = "failed to remove partition"]
                      ELSE flushLoop(chain, k + 1, inMem,
                                     [st EXCEPT !.list = r.list])
             ELSE LET dir == dirName(part)
                      files == flush(part)
                      dsk == [d \in (DOMAIN st.disk) \cup {dir} |->
                                 IF d = dir THEN files ELSE st.disk[d]]
                      newPart == openDiskPartition(dir, files, part.metrics)
                      heap == Append(st.heap, newPart)
                      r == listSwap(st.list, heap, chain[k], Len(heap))
                  IN  IF openErr(files) # "nil"
                      THEN [st EXCEPT !.disk = dsk,
                               !.err = "failed to generate disk partition"]
                      ELSE IF r.err # "nil"
                      THEN [st EXCEPT !.disk = dsk, !.heap = heap,
                                      !.err = "failed to swap partitions"]
                      ELSE flushLoop(chain, k + 1, inMem,
                               [st EXCEPT !.disk = dsk, !.heap = heap,
                                          !.list = r.list])

flushPartitions(list, heap, dsk, inMem) ==
    flushLoop(list, 1, inMem,
              [list |-> list, heap |-> heap, disk |-> dsk, err |-> "nil"])

\* --------------------------------------------------------------- queries
\* The loop of storage.SelectDataPoints over the nodes ps from the newest:
\* the points gathered, the error and the heap after the calls.
RECURSIVE selectLoop(_, _, _, _, _, _)
selectLoop(ps, h, metric, start, end, acc) ==
    IF ps = <<>> THEN [points |-> acc, err |-> "nil", heap |-> h]
    ELSE LET part == h[Head(ps)]
         IN  IF maxTimestamp(part) < start
             THEN [points |-> acc, err |-> "nil", heap |-> h]
             ELSE IF minTimestamp(part) > end
             THEN selectLoop(Tail(ps), h, metric, start, end, acc)
             ELSE IF part.kind = "mem"
             THEN LET r == memSelectDataPoints(part, metric, start, end)
                      h2 == [h EXCEPT ![Head(ps)] = r.part]
                  IN  IF r.err # "nil"
                      THEN [points |-> <<>>, err |-> r.err, heap |-> h2]
                      ELSE selectLoop(Tail(ps), h2, metric, start, end,
                                      r.points \o acc)
             ELSE LET r == diskSelectDataPoints(part, metric, start, end)
                  IN  IF r.err # "nil"
                      THEN [points |-> <<>>,
                            err |-> "failed to select data points",
                            heap |-> h]
                      ELSE selectLoop(Tail(ps), h, metric, start, end,
                                      r.points \o acc)

SelectDataPoints(list, h, metric, start, end) ==
    IF start >= end
    THEN [points |-> <<>>, err |-> "invalid range", heap |-> h]
    ELSE LET r == selectLoop(list, h, metric, start, end, <<>>)
         IN  IF r.err = "nil" /\ Len(r.points) = 0
             THEN [r EXCEPT !.err = "ErrNoDataPoints"]
             ELSE r

\* ------------------------------------------- partition list (its pointers)
\* A partitionListImpl is its size, head and tail and the nodes allocated so
\* far; a node is its partition and its next pointer; 0 is the nil pointer.
\* The nodes the iterator of the list visits, from the node id on.
RECURSIVE nodesFrom(_, _)
nodesFrom(nodes, id) ==
    IF id = 0 THEN <<>>
    ELSE <<id>> \o nodesFrom(nodes, nodes[id].next)

\* The nodes of the list from head to tail.
chain(l) == nodesFrom(l.nodes, l.head)

\* Where in the chain c the loop of remove and swap stops: the first node
\* whose partition is the same as the target, 0 when there is none.
firstSame(l, c, target) ==
    LET hits == {i \in 1..Len(c) : samePartitions(l.nodes[c[i]].val, target)}
    IN  IF hits = {} THEN 0
        ELSE CHOOSE i \in hits : \A j \in hits : i <= j

\* partitionListImpl.insert: the new node points to the old head.
plInsert(l, partition) ==
    LET node == Len(l.nodes) + 1
    IN  [l EXCEPT !.nodes = Append(@, [val |-> partition, next |-> l.head]),
                  !.head = node,
                  !.size = @ + 1]

\* remove that unlinks the node and leaves size as it was. C17 fails on it.
plRemoveKeepsSize(l, target) ==
    IF l.size <= 0 THEN [list |-> l, err |-> "empty partition"]
    ELSE LET c == chain(l)
             i == firstSame(l, c, target)
             prev == IF i > 1 THEN c[i - 1] ELSE 0
             next == IF i > 0 THEN l.nodes[c[i]].next ELSE 0
         IN  IF i = 0
             THEN [list |-> l, err |-> "the given partition was not found"]
             ELSE [list |->
                      IF prev = 0 THEN [l EXCEPT !.head = next]
                      ELSE IF next = 0
                      THEN [l EXCEPT !.nodes[prev].next = 0, !.tail = prev]
                      ELSE [l EXCEPT !.nodes[prev].next = next],
                   err |-> "nil"]

\* partitionListImpl.remove.
plRemove(l, target) ==
    IF l.size <= 0 THEN [list |-> l, err |-> "empty partition"]
    ELSE LET c == chain(l)
             i == firstSame(l, c, target)
             prev == IF i > 1 THEN c[i - 1] ELSE 0
             next == IF i > 0 THEN l.nodes[c[i]].next ELSE 0
         IN  IF i = 0
             THEN [list |-> l, err |-> "the given partition was not found"]
             ELSE [list |->
                      IF prev = 0
                      THEN [l EXCEPT !.head = next, !.size = @ - 1]
                      ELSE IF next = 0
                      THEN [l EXCEPT !.nodes[prev].next = 0, !.tail = prev,
                                     !.size = @ - 1]
                      ELSE [l EXCEPT !.nodes[prev].next = next,
                                     !.size = @ - 1],
                   err |-> "nil"]

\* swap whose new node has no next node. C18 fails on it.
plSwapDropsNext(l, old, new) ==
    IF l.size <= 0 THEN [list |-> l, err |-> "empty partition"]
    ELSE LET c == chain(l)
             i == firstSame(l, c, old)
             prev == IF i > 1 THEN c[i - 1] ELSE 0
             next == IF i > 0 THEN l.nodes[c[i]].next ELSE 0
             newNode == Len(l.nodes) + 1
             nodes == Append(l.nodes, [val |-> new, next |-> 0])
         IN  IF i = 0
             THEN [list |-> l, err |-> "the given partition was not found"]
             ELSE [list |->
                      IF prev = 0
                      THEN [l EXCEPT !.nodes = nodes, !.head = newNode]
                      ELSE IF next = 0
                      THEN [l EXCEPT !.nodes = [nodes EXCEPT
                                                   ![prev].next = newNode],
                                     !.tail = newNode]
                      ELSE [l EXCEPT !.nodes = [nodes EXCEPT
                                                   ![prev].next = newNode]],
                   err |-> "nil"]

\* partitionListImpl.swap.
plSwap(l, old, new) ==
    IF l.size <= 0 THEN [list |-> l, err |-> "empty partition"]
    ELSE LET c == chain(l)
             i == firstSame(l, c, old)
             prev == IF i > 1 THEN c[i - 1] ELSE 0
             next == IF i > 0 THEN l.nodes[c[i]].next ELSE 0
             newNode == Len(l.nodes) + 1
             nodes == Append(l.nodes, [val |-> new, next |-> next])
         IN  IF i = 0
             THEN [list |-> l, err |-> "the given partition was not found"]
             ELSE [list |->
                      IF prev = 0
                      THEN [l EXCEPT !.nodes = nodes, !.head = newNode]
                      ELSE IF next = 0
                      THEN [l EXCEPT !.nodes = [nodes EXCEPT
                                                   ![prev].next = newNode],
                                     !.tail = newNode]
                      ELSE [l EXCEPT !.nodes = [nodes EXCEPT
                                                   ![prev].next = newNode]],
                   err |-> "nil"]

\* ------------------------------------------------------------------- WAL
\* operationInsert is the first walOperation.
operationInsert == 0

\* The wal of the storage: newFileWal keeps the file name and opens nothing;
\* its append writes nothing and returns nil.
newFileWal == [kind |-> "fileWAL", filename |-> "wal"]

\* The key of a metric without labels: its length, then its bytes. A metric
\* name of the model is one byte long.
marshalMetricName(metric) == <<Len(<<metric>>), metric>>

\* The segment file createSegmentFile opens: it is named after the second,
\* created when missing and left as it is when it exists.
createSegmentFile(dir, now) ==
    [name |-> now,
     dir |-> IF now \in DOMAIN dir THEN dir
             ELSE [n \in DOMAIN dir \cup {now} |->
                      IF n = now THEN <<>> ELSE dir[n]]]

\* newDiskWAL: the first segment and a buffered writer on it. A diskWAL is
\* its fd (the segment and whether the file was closed), the bufio.Writer
\* (what it buffers and the error it keeps), bufferedSize and mu (locked or
\* not).
newDiskWAL(dir, now, bufferedSize) ==
    LET f == createSegmentFile(dir, now)
    IN  [w |-> [kind |-> "diskWAL", fd |-> f.name, closed |-> FALSE,
                buf |-> <<>>, err |-> FALSE, bufferedSize |-> bufferedSize,
                mu |-> FALSE],
         dir |-> f.dir]

\* bufio.Writer.Flush: the error kept is returned; an empty buffer needs no
\* write; a write to the closed file fails, is kept and keeps the buffer.
bufioFlush(w, dir) ==
    IF w.err THEN [w |-> w, dir |-> dir, err |-> "file already closed"]
    ELSE IF w.buf = <<>> THEN [w |-> w, dir |-> dir, err |-> "nil"]
    ELSE IF w.closed
    THEN [w |-> [w EXCEPT !.err = TRUE], dir |-> dir,
          err |-> "file already closed"]
    ELSE [w |-> [w EXCEPT !.buf = <<>>],
          dir |-> [dir EXCEPT ![w.fd] = @ \o w.buf],
          err |-> "nil"]

\* bufio.Writer.Write of one byte: a full buffer is flushed first. A writer
\* made with size 0 has the default size, which no batch of the model fills.
bufioWrite(w, dir, b) ==
    IF w.err THEN [w |-> w, dir |-> dir, err |-> "file already closed"]
    ELSE IF w.bufferedSize = 0 \/ Len(w.buf) < w.bufferedSize
    THEN [w |-> [w EXCEPT !.buf = Append(@, b)], dir |-> dir, err |-> "nil"]
    ELSE LET r == bufioFlush(w, dir)
         IN  IF r.err # "nil" THEN r
             ELSE [w |-> [r.w EXCEPT !.buf = <<b>>], dir |-> r.dir,
                   err |-> "nil"]

\* What append writes for a row: the operation, the length of the key, the
\* key, the timestamp and the bits of the value. A varint is one byte here:
\* PutUvarint/ReadUvarint and PutVarint/ReadVarint hand a number back as it
\* was, and so do Float64bits/Float64frombits.
recordBytes(row) ==
    LET name == marshalMetricName(row.Metric)
    IN  <<operationInsert, Len(name)>> \o name
            \o <<row.Timestamp, row.Value>>

RECURSIVE batchBytes(_)
batchBytes(rows) ==
    IF rows = <<>> THEN <<>>
    ELSE recordBytes(Head(rows)) \o batchBytes(Tail(rows))

RECURSIVE writeBytes(_, _, _)
writeBytes(w, dir, bytes) ==
    IF bytes = <<>> THEN [w |-> w, dir |-> dir, err |-> "nil"]
    ELSE LET r == bufioWrite(w, dir, Head(bytes))
         IN  IF r.err # "nil" THEN r
             ELSE writeBytes(r.w, r.dir, Tail(bytes))

\* diskWAL.flush.
diskWALflush(w, dir) == bufioFlush(w, dir)

\* diskWAL.append(operationInsert, rows): the first failing write ends it;
\* with bufferedSize 0 it ends with a flush.
diskWALappend(w, dir, rows) ==
    LET r == writeBytes(w, dir, batchBytes(rows))
    IN  IF r.err # "nil" THEN r
        ELSE IF w.bufferedSize = 0 THEN diskWALflush(r.w, r.dir)
        ELSE r

\* diskWAL.truncateOldest: it returns nil.
diskWALtruncateOldest(w, dir) == [w |-> w, dir |-> dir, err |-> "nil"]

\* diskWAL.punctuate: closing a closed file fails and ends the call with
\* nil. Else the file is closed, with what the writer buffers left in the
\* writer, and a segment is created; the receiver is a copy of the diskWAL,
\* so the new file and its writer are dropped when the call returns.
diskWALpunctuate(w, dir, now) ==
    IF w.closed THEN [w |-> w, dir |-> dir, err |-> "nil"]
    ELSE [w |-> [w EXCEPT !.closed = TRUE],
          dir |-> createSegmentFile(dir, now).dir,
          err |-> "nil"]

\* diskWALReader.next until it returns false: the rows read and the error.
RECURSIVE diskWALReaderLoop(_, _)
diskWALReaderLoop(bytes, acc) ==
    IF bytes = <<>> THEN [rows |-> acc, err |-> "nil"]
    ELSE IF Head(bytes) # operationInsert
    THEN [rows |-> acc, err |-> "unknown operation"]
    ELSE IF Len(bytes) < 2
    THEN [rows |-> acc, err |-> "failed to read the length of metric name"]
    ELSE LET metricLen == bytes[2]
         IN  IF Len(bytes) < 2 + metricLen
             THEN [rows |-> acc, err |-> "failed to read the metric name"]
             ELSE IF Len(bytes) < 3 + metricLen
             THEN [rows |-> acc, err |-> "failed to read timestamp"]
             ELSE IF Len(bytes) < 4 + metricLen
             THEN [rows |-> acc, err |-> "failed to read value"]
             ELSE diskWALReaderLoop(
                      SubSeq(bytes, 5 + metricLen, Len(bytes)),
                      Append(acc, Row(SubSeq(bytes, 3, 2 + metricLen),
                                      bytes[3 + metricLen],
                                      bytes[4 + metricLen])))

diskWALReader(bytes) == diskWALReaderLoop(bytes, <<>>)

\* ------------------------------------------------------------------ state
VARIABLES
    inMemory,       \* storage.inMemoryMode(): no data path was given
    partitionList,  \* the nodes of storage.partitionList, head first
    parts,          \* the heap of partitions the nodes and the writers refer to
    disk,           \* the partition directories under the data path
    sem,            \* len(workersLimitCh): the slots held
    pc,             \* where the InsertRows call of each writer stands
    target,         \* the partition getPartition gave to each call
    returned,       \* the writer and the error of the last InsertRows return
    flushPending,   \* flushPartitions goroutines started and not yet run
    phase,          \* "open" until Close has returned, then "closed"
    instance,       \* how many storages were opened on the data path
    nextValue,      \* rows stored or dropped so far (the next row's value)
    acked,          \* auxiliary: the rows of the calls that returned nil
    atClose,        \* auxiliary: acked and the result of Close, at Close
    wal,            \* the wal object the memory partition logs to
    walDir,         \* the segment files of the WAL directory, by name
    clock,          \* time.Now().Unix()
    walResult,      \* the last call made on the wal and what it returned
    appended,       \* auxiliary: the rows of the appends that returned nil
    pl,             \* a partitionListImpl with its nodes, used on its own
    plResult,       \* the last call made on pl, its arguments and its error
    mp,             \* a memoryPartition several goroutines call at once
    calls,          \* where the insertRows call of each goroutine stands
    inserted,       \* auxiliary: the rows insertPoint was called with on mp
    issued,         \* the rows handed to insertRows calls on mp so far
    inserting,      \* where the insert call of each goroutine on pl stands
    runs,           \* where each run of flushPartitions over pl stands
    appending,      \* where the append call of each goroutine on wal stands
    batches,        \* auxiliary: the batches of the appends that returned nil
    selecting       \* where a SelectDataPoints call over pl stands

storageVars == <<inMemory, partitionList, parts, disk, sem, pc, target,
                 returned, flushPending, phase, instance, nextValue, acked,
                 atClose>>
walVars == <<wal, walDir, clock, walResult, appended>>
listVars == <<pl, plResult>>
concVars == <<mp, calls, inserted, issued>>
appendVars == <<appending, batches>>
stepVars == <<inserting, runs, appendVars, selecting>>
vars == <<storageVars, walVars, listVars, concVars, stepVars>>

\* The batches a caller may hand over: n rows, valued nextValue+1.. in turn.
Batches(n) ==
    {[i \in 1..n |-> Row(f[i][1], f[i][2], nextValue + i)] :
        f \in [1..n -> Series \X Timestamps]}

RowSet(rows) == {rows[i] : i \in 1..Len(rows)}

InitStorage ==
    /\ inMemory \in BOOLEAN
    /\ partitionList = <<1>>
    /\ parts = <<newMemoryPartition>>
    /\ disk = <<>>
    /\ sem = 0
    /\ pc = [w \in Writers |-> "idle"]
    /\ target = [w \in Writers |-> 0]
    /\ returned = [writer |-> 0, err |-> "none"]
    /\ flushPending = 0
    /\ phase = "open"
    /\ instance = 1
    /\ nextValue = 0
    /\ acked = {}
    /\ atClose = [acked |-> {}, err |-> "none"]

\* A list that holds no node yet.
newPartitionList == [size |-> 0, head |-> 0, tail |-> 0, nodes |-> <<>>]

\* ------------------------------------------- a partition called at once
\* The body of insertPoint under m.mu, with the size the call loaded before
\* it took the lock.
insertPointLocked(m, loaded, point) ==
    IF loaded = 0
    THEN [m EXCEPT !.points = Append(@, point),
                   !.minTimestamp = point.Timestamp,
                   !.maxTimestamp = point.Timestamp,
                   !.size = @ + 1]
    ELSE IF m.points[loaded].Timestamp < point.Timestamp
    THEN [m EXCEPT !.points = Append(@, point),
                   !.maxTimestamp = point.Timestamp,
                   !.size = @ + 1]
    ELSE [m EXCEPT !.outOfOrderPoints = Append(@, point)]

\* A memory partition whose metric objects have an identity: metrics is the
\* sync.Map from a series to the index of its object in heap.
newSharedPartition ==
    [kind |-> "mem", metrics |-> <<>>, heap |-> <<>>, numPoints |-> 0,
     minT |-> 0, maxT |-> 0, once |-> FALSE]

\* The locals of an insertRows call: the rows, the index of the row at hand,
\* the running maximum, the rows stored, the metric object and the size
\* insertPoint loaded.
idleCall ==
    [pc |-> "idle", rows |-> <<>>, i |-> 0, maxTimestamp |-> 0,
     rowsNum |-> 0, mt |-> 0, size |-> 0]

\* The locals of an insert call on the list: the node it made.
idleInsert == [pc |-> "idle", node |-> 0]

\* The locals of a flushPartitions run: the counter i, the node the iterator
\* is at (-1 for the dummy node newIterator makes) and the head the dummy
\* node points to.
idleRun == [pc |-> "idle", i |-> 0, current |-> 0, dummyNext |-> 0]

\* The locals of an append call on the diskWAL: the batch, the writes it
\* has made, and mu, the mutex of its receiver, which is the copy of the
\* diskWAL the call was made with.
idleAppend == [pc |-> "idle", rows |-> <<>>, i |-> 0, mu |-> FALSE]

\* The locals of a SelectDataPoints call over pl: the range, the node the
\* iterator is at (-1 for the dummy node), the head the dummy node points
\* to, the points gathered and the error returned; chain0 (the nodes of the
\* list when the call began) and visited (the nodes selectDataPoints was
\* called on, each with what it gave) are auxiliary.
idleSelect ==
    [pc |-> "idle", start |-> 0, end |-> 0, current |-> 0, dummyNext |-> 0,
     points |-> <<>>, err |-> "none", chain0 |-> <<>>, visited |-> <<>>]

\* No call was made yet on the wal, or on the list used on its own.
InitCalls ==
    /\ clock = 0
    /\ walResult = [op |-> "none", err |-> "nil"]
    /\ appended = <<>>
    /\ pl = newPartitionList
    /\ plResult = [op |-> "none", err |-> "nil", at |-> 0, len |-> 0]
    /\ mp = newSharedPartition
    /\ calls = [c \in Callers |-> idleCall]
    /\ inserted = {}
    /\ issued = 0
    /\ inserting = [c \in Callers |-> idleInsert]
    /\ runs = [f \in Flushers |-> idleRun]
    /\ appending = [c \in Callers |-> idleAppend]
    /\ batches = {}
    /\ selecting = idleSelect

\* The storage after NewStorage: its wal is the fileWAL.
Init ==
    /\ InitStorage
    /\ wal = newFileWal
    /\ walDir = <<>>
    /\ InitCalls

\* ------------------------------------------------------------- InsertRows
\* InsertRows is entered: the non-blocking send on workersLimitCh takes a
\* slot, or the call goes on to wait for one. (The rows of the call are
\* first looked at by p.insertRows, and are drawn there.)
InsertRowsBegin(w) ==
    /\ phase = "open"
    /\ pc[w] = "idle"
    /\ nextValue < MaxRows
    /\ IF sem < defaultWorkersLimit
       THEN /\ sem' = sem + 1
            /\ pc' = [pc EXCEPT ![w] = "admitted"]
       ELSE /\ sem' = sem
            /\ pc' = [pc EXCEPT ![w] = "waiting"]
    /\ UNCHANGED <<walVars, listVars, concVars, stepVars>>
    /\ UNCHANGED <<inMemory, partitionList, parts, disk, target, returned,
                   flushPending, phase, instance, nextValue, acked, atClose>>

\* The second select of InsertRows with a send that never blocks: the call
\* goes on to insert() whether a slot is free or not. C6 fails on it.
InsertRowsAcquireAnyway(w) ==
    /\ pc[w] = "waiting"
    /\ sem' = sem + 1
    /\ pc' = [pc EXCEPT ![w] = "admitted"]
    /\ UNCHANGED <<walVars, listVars, concVars, stepVars>>
    /\ UNCHANGED <<inMemory, partitionList, parts, disk, target, returned,
                   flushPending, phase, instance, nextValue, acked, atClose>>

\* The waiting call gets a slot before the timer fires.
InsertRowsAcquire(w) ==
    /\ pc[w] = "waiting"
    /\ sem < defaultWorkersLimit
    /\ sem' = sem + 1
    /\ pc' = [pc EXCEPT ![w] = "admitted"]
    /\ UNCHANGED <<walVars, listVars, concVars, stepVars>>
    /\ UNCHANGED <<inMemory, partitionList, parts, disk, target, returned,
                   flushPending, phase, instance, nextValue, acked, atClose>>

\* The timer branch of InsertRows with the partition looked up before the
\* error is returned: getPartition puts a new partition at the head when
\* the head is not active. C7 fails on it.
InsertRowsTimeoutAfterGetPartition(w) ==
    /\ pc[w] = "waiting"
    /\ pc' = [pc EXCEPT ![w] = "idle"]
    /\ returned' = [writer |-> w, err |-> "overloaded"]
    /\ IF active(parts[partitionList[1]])
       THEN UNCHANGED <<parts, partitionList>>
       ELSE /\ parts' = Append(parts, newMemoryPartition)
            /\ partitionList' = listInsert(partitionList, Len(parts) + 1)
    /\ UNCHANGED <<walVars, listVars, concVars, stepVars>>
    /\ UNCHANGED <<inMemory, disk, sem, target,
                   flushPending, phase, instance, nextValue, acked, atClose>>

\* The timer of writeTimeout fires first: the call returns the error.
InsertRowsTimeout(w) ==
    /\ pc[w] = "waiting"
    /\ pc' = [pc EXCEPT ![w] = "idle"]
    /\ returned' = [writer |-> w, err |-> "overloaded"]
    /\ UNCHANGED <<walVars, listVars, concVars, stepVars>>
    /\ UNCHANGED <<inMemory, partitionList, parts, disk, sem, target,
                   flushPending, phase, instance, nextValue, acked, atClose>>

\* getPartition: the head when it is active, else a new memory partition is
\* put at the head and a flushPartitions goroutine is started.
getPartition(w) ==
    /\ pc[w] = "admitted"
    /\ IF active(parts[partitionList[1]])
       THEN /\ target' = [target EXCEPT ![w] = partitionList[1]]
            /\ UNCHANGED <<parts, partitionList, flushPending>>
       ELSE /\ parts' = Append(parts, newMemoryPartition)
            /\ partitionList' = listInsert(partitionList, Len(parts) + 1)
            /\ target' = [target EXCEPT ![w] = Len(parts) + 1]
            /\ flushPending' = flushPending + 1
    /\ pc' = [pc EXCEPT ![w] = "insert"]
    /\ UNCHANGED <<walVars, listVars, concVars, stepVars>>
    /\ UNCHANGED <<inMemory, disk, sem, returned, phase, instance,
                   nextValue, acked, atClose>>

\* insert that returns the error of p.insertRows before the slot is
\* released. C37 fails on it.
insertKeepsSlotOnError(w, rows) ==
    /\ pc[w] = "insert"
    /\ LET r == insertRows(parts[target[w]], rows)
       IN  /\ parts' = [parts EXCEPT ![target[w]] = r.part]
           /\ returned' = [writer |-> w,
                           err |-> IF r.err = "nil" THEN "nil"
                                   ELSE "failed to insert rows"]
           /\ acked' = IF r.err = "nil" THEN acked \cup RowSet(rows)
                       ELSE acked
           /\ nextValue' = nextValue + Len(rows)
           /\ sem' = IF r.err = "nil" THEN sem - 1 ELSE sem
    /\ pc' = [pc EXCEPT ![w] = "idle"]
    /\ target' = [target EXCEPT ![w] = 0]
    /\ UNCHANGED <<walVars, listVars, concVars, stepVars>>
    /\ UNCHANGED <<inMemory, partitionList, disk, flushPending, phase,
                   instance, atClose>>

\* p.insertRows(rows) of the call of w, the release of the slot and the
\* return.
insert(w, rows) ==
    /\ pc[w] = "insert"
    /\ LET r == insertRows(parts[target[w]], rows)
       IN  /\ parts' = [parts EXCEPT ![target[w]] = r.part]
           /\ returned' = [writer |-> w,
                           err |-> IF r.err = "nil" THEN "nil"
                                   ELSE "failed to insert rows"]
           /\ acked' = IF r.err = "nil" THEN acked \cup RowSet(rows)
                       ELSE acked
           /\ nextValue' = nextValue + Len(rows)
    /\ sem' = sem - 1
    /\ pc' = [pc EXCEPT ![w] = "idle"]
    /\ target' = [target EXCEPT ![w] = 0]
    /\ UNCHANGED <<walVars, listVars, concVars, stepVars>>
    /\ UNCHANGED <<inMemory, partitionList, disk, flushPending, phase,
                   instance, atClose>>

\* The call of w was made with any batch of up to MaxBatch rows.
InsertRowsInsert(w) ==
    \E n \in 0..MaxBatch :
        /\ nextValue + n <= MaxRows
        /\ \E rows \in Batches(n) : insert(w, rows)

\* The call of w was made with one row of the first series.
InsertRowsInsertOne(w) ==
    /\ nextValue + 1 <= MaxRows
    /\ \E ts \in 1..MaxTimestampOne :
          insert(w, <<Row(1, ts, nextValue + 1)>>)

\* ------------------------------------------------------- SelectDataPoints
\* A SelectDataPoints call; what it returns is SelectDataPoints(...) of the
\* state it runs in, what it leaves behind is the heap after getMetric.
Select ==
    /\ phase = "open"
    /\ \E metric \in Series : \E start \in 0..MaxTimestamp :
         \E end \in (start + 1)..(MaxTimestamp + 1) :
            parts' = SelectDataPoints(partitionList, parts,
                                      metric, start, end).heap
    /\ UNCHANGED <<walVars, listVars, concVars, stepVars>>
    /\ UNCHANGED <<inMemory, partitionList, disk, sem, pc, target, returned,
                   flushPending, phase, instance, nextValue, acked, atClose>>

\* ------------------------------------------------------------------ flush
\* The goroutine getPartition started runs flushPartitions; its error is
\* only logged.
BackgroundFlush ==
    /\ flushPending > 0
    /\ LET r == flushPartitions(partitionList, parts, disk, inMemory)
       IN  /\ partitionList' = r.list
           /\ parts' = r.heap
           /\ disk' = r.disk
    /\ flushPending' = flushPending - 1
    /\ UNCHANGED <<walVars, listVars, concVars, stepVars>>
    /\ UNCHANGED <<inMemory, sem, pc, target, returned, phase, instance,
                   nextValue, acked, atClose>>

RECURSIVE prepend(_, _, _)
prepend(list, heap, n) ==
    IF n = 0 THEN [list |-> list, heap |-> heap]
    ELSE prepend(listInsert(list, Len(heap) + 1),
                 Append(heap, newMemoryPartition), n - 1)

\* Close: wg.Wait() lets it go on once no InsertRows is in progress; it puts
\* defaultWritablePartitionsNum new partitions at the head and flushes.
Close ==
    /\ phase = "open"
    /\ \A w \in Writers : pc[w] = "idle"
    /\ LET pre == prepend(partitionList, parts, defaultWritablePartitionsNum)
           r == flushPartitions(pre.list, pre.heap, disk, inMemory)
       IN  /\ partitionList' = r.list
           /\ parts' = r.heap
           /\ disk' = r.disk
           /\ atClose' = [acked |-> acked,
                          err |-> IF r.err = "nil" THEN "nil"
                                  ELSE "failed to close storage"]
    /\ phase' = "closed"
    /\ UNCHANGED <<walVars, listVars, concVars, stepVars>>
    /\ UNCHANGED <<inMemory, sem, pc, target, returned, flushPending,
                   instance, nextValue, acked>>

\* ------------------------------------------------------------- NewStorage
\* The directories of the data path ordered as NewStorage orders them:
\* ReadDir gives them by name, the sort by minTimestamp keeps that order
\* among equals.
RECURSIVE sortedDirs(_)
sortedDirs(S) ==
    IF S = {} THEN <<>>
    ELSE LET x == CHOOSE y \in S : \A z \in S :
                      \/ y[1] < z[1]
                      \/ (y[1] = z[1] /\ y[2] <= z[2])
         IN  <<x>> \o sortedDirs(S \ {x})

\* The error NewStorage returns for a data path: that of the first
\* directory openDiskPartition fails on.
newStorageErr(inMem, dsk) ==
    IF ~inMem /\ \E d \in DOMAIN dsk : openErr(dsk[d]) # "nil"
    THEN "failed to open disk partition"
    ELSE "nil"

\* NewStorage on the data path of a closed storage; with an error there is
\* no storage to use.
NewStorage ==
    /\ phase = "closed"
    /\ instance < MaxInstances
    /\ flushPending = 0
    /\ newStorageErr(inMemory, disk) = "nil"
    /\ IF inMemory \/ DOMAIN disk = {}
       THEN /\ parts' = <<newMemoryPartition>>
            /\ partitionList' = <<1>>
       ELSE LET dirs == sortedDirs(DOMAIN disk)
                n == Len(dirs)
            IN  /\ parts' = [i \in 1..(n + 1) |->
                               IF i <= n
                               THEN openDiskPartition(dirs[i], disk[dirs[i]],
                                                      <<>>)
                               ELSE newMemoryPartition]
                /\ partitionList' = [i \in 1..(n + 1) |-> n + 2 - i]
    /\ phase' = "open"
    /\ instance' = instance + 1
    /\ UNCHANGED <<walVars, listVars, concVars, stepVars>>
    /\ UNCHANGED <<inMemory, disk, sem, pc, target, returned,
                   flushPending, nextValue, acked, atClose>>

Next ==
    \/ \E w \in Writers : InsertRowsBegin(w)
    \/ \E w \in Writers : InsertRowsAcquire(w)
    \/ \E w \in Writers : InsertRowsTimeout(w)
    \/ \E w \in Writers : getPartition(w)
    \/ \E w \in Writers : InsertRowsInsert(w)
    \/ Select
    \/ BackgroundFlush
    \/ Close
    \/ NewStorage

Spec == Init /\ [][Next]_vars

\* The storage under concurrent writers that insert one row per call.
NextAdmission ==
    \/ \E w \in Writers : InsertRowsBegin(w)
    \/ \E w \in Writers : InsertRowsAcquire(w)
    \/ \E w \in Writers : InsertRowsTimeout(w)
    \/ \E w \in Writers : getPartition(w)
    \/ \E w \in Writers : InsertRowsInsertOne(w)
    \/ BackgroundFlush
    \/ Close
    \/ NewStorage

SpecAdmission == Init /\ [][NextAdmission]_vars

\* ------------------------------------------------ a partition with a diskWAL
\* The most a diskWAL of the model buffers when it is made with a size.
WalBufferedSize == 7
\* The seconds the clock of the model goes through.
MaxClock == 1

\* A memory partition whose wal is a diskWAL on an empty directory.
InitWAL ==
    /\ InitStorage
    /\ inMemory = FALSE
    /\ InitCalls
    /\ \E bufferedSize \in {0, WalBufferedSize} :
          LET n == newDiskWAL(<<>>, clock, bufferedSize)
          IN  /\ wal = n.w
              /\ walDir = n.dir

\* memoryPartition.insertRows on the partition: the batch is handed to
\* m.wal.append, whose result is dropped, and then put into the buffers.
InsertRowsLogged ==
    /\ \E n \in 1..MaxBatch :
         /\ nextValue + n <= MaxRows
         /\ \E rows \in Batches(n) :
               LET a == diskWALappend(wal, walDir, rows)
                   r == insertRows(parts[1], rows)
               IN  /\ wal' = a.w
                   /\ walDir' = a.dir
                   /\ walResult' = [op |-> "append", err |-> a.err]
                   /\ appended' = IF a.err = "nil" THEN appended \o rows
                                  ELSE appended
                   /\ parts' = [parts EXCEPT ![1] = r.part]
                   /\ returned' = [writer |-> 1, err |-> r.err]
                   /\ acked' = IF r.err = "nil" THEN acked \cup RowSet(rows)
                               ELSE acked
                   /\ nextValue' = nextValue + n
    /\ UNCHANGED <<inMemory, partitionList, disk, sem, pc, target,
                   flushPending, phase, instance, atClose, clock, listVars>>
    /\ UNCHANGED <<concVars, stepVars>>

\* A call of flush on the diskWAL.
FlushWAL ==
    /\ LET r == diskWALflush(wal, walDir)
       IN  /\ wal' = r.w
           /\ walDir' = r.dir
           /\ walResult' = [op |-> "flush", err |-> r.err]
    /\ UNCHANGED <<storageVars, clock, appended, listVars,
                   concVars, stepVars>>

\* A call of punctuate on the diskWAL.
Punctuate ==
    /\ LET r == diskWALpunctuate(wal, walDir, clock)
       IN  /\ wal' = r.w
           /\ walDir' = r.dir
           /\ walResult' = [op |-> "punctuate", err |-> r.err]
    /\ UNCHANGED <<storageVars, clock, appended, listVars,
                   concVars, stepVars>>

\* A call of truncateOldest on the diskWAL.
TruncateOldest ==
    /\ LET r == diskWALtruncateOldest(wal, walDir)
       IN  /\ wal' = r.w
           /\ walDir' = r.dir
           /\ walResult' = [op |-> "truncateOldest", err |-> r.err]
    /\ UNCHANGED <<storageVars, clock, appended, listVars,
                   concVars, stepVars>>

\* A second goes by.
Tick ==
    /\ clock < MaxClock
    /\ clock' = clock + 1
    /\ UNCHANGED <<storageVars, wal, walDir, walResult, appended, listVars,
                   concVars, stepVars>>

NextWAL ==
    \/ InsertRowsLogged
    \/ FlushWAL
    \/ Punctuate
    \/ TruncateOldest
    \/ Tick

SpecWAL == InitWAL /\ [][NextWAL]_vars

\* ------------------------------------------------------------------ crash
\* The process of the storage dies: what it held in memory is gone, the
\* data path stays as it is. atClose keeps the rows acknowledged so far.
Crash ==
    /\ phase = "open"
    /\ phase' = "closed"
    /\ partitionList' = <<>>
    /\ parts' = <<>>
    /\ sem' = 0
    /\ pc' = [w \in Writers |-> "idle"]
    /\ target' = [w \in Writers |-> 0]
    /\ flushPending' = 0
    /\ atClose' = [acked |-> acked, err |-> "crash"]
    /\ UNCHANGED <<walVars, listVars, concVars, stepVars>>
    /\ UNCHANGED <<inMemory, disk, returned, instance, nextValue, acked>>

\* insertRows is called on a disk partition of the storage with one row.
DiskInsertRows ==
    /\ phase = "open"
    /\ \E i \in 1..Len(parts) : \E ts \in 1..MaxTimestampOne :
          /\ parts[i].kind = "disk"
          /\ LET r == diskInsertRows(parts[i], <<Row(1, ts, nextValue + 1)>>)
             IN  /\ parts' = [parts EXCEPT ![i] = r.part]
                 /\ returned' = [writer |-> 0, err |-> r.err]
    /\ UNCHANGED <<walVars, listVars, concVars, stepVars>>
    /\ UNCHANGED <<inMemory, partitionList, disk, sem, pc, target,
                   flushPending, phase, instance, nextValue, acked, atClose>>

\* The storage under writers of one row per call, with crashes.
NextRestart ==
    \/ \E w \in Writers : InsertRowsBegin(w)
    \/ \E w \in Writers : InsertRowsAcquire(w)
    \/ \E w \in Writers : InsertRowsTimeout(w)
    \/ \E w \in Writers : getPartition(w)
    \/ \E w \in Writers : InsertRowsInsertOne(w)
    \/ BackgroundFlush
    \/ Close
    \/ Crash
    \/ NewStorage

SpecRestart == Init /\ [][NextRestart]_vars

\* The storage under writers of one row per call, with calls of insertRows
\* on its disk partitions.
NextDisk ==
    \/ \E w \in Writers : InsertRowsBegin(w)
    \/ \E w \in Writers : InsertRowsAcquire(w)
    \/ \E w \in Writers : InsertRowsTimeout(w)
    \/ \E w \in Writers : getPartition(w)
    \/ \E w \in Writers : InsertRowsInsertOne(w)
    \/ BackgroundFlush
    \/ Close
    \/ NewStorage
    \/ DiskInsertRows

SpecDisk == Init /\ [][NextDisk]_vars

\* ------------------------------------------------- the list on its own
\* The most nodes the list of the model allocates.
MaxNodes == 4

\* The partitions handed to the list: insert and remove are called with
\* memory partitions, which took no row or one row (of the first or of the
\* last timestamp) here; swap is called with a memory partition and a disk
\* partition some memory partition is flushed to.
ListMemoryPartitions ==
    {newMemoryPartition} \cup
    {insertRows(newMemoryPartition, <<Row(1, ts, ts)>>).part :
        ts \in {1, MaxTimestampOne}}

ListDiskPartitions ==
    {openDiskPartition(dirName(m), flush(m), m.metrics) :
        m \in ListMemoryPartitions}

\* What a call on the list leaves in plResult: the call, its error and,
\* auxiliary, where in the chain the loop stopped and how long the chain was.
CallResult(op, err, l, old) ==
    [op |-> op, err |-> err, at |-> firstSame(l, chain(l), old),
     len |-> Len(chain(l))]

\* A call of insert on the list.
ListInsert ==
    /\ Len(pl.nodes) < MaxNodes
    /\ \E partition \in ListMemoryPartitions :
          /\ pl' = plInsert(pl, partition)
          /\ plResult' = CallResult("insert", "nil", pl, partition)
    /\ UNCHANGED <<storageVars, walVars, concVars, stepVars>>

\* A call of remove on the list.
ListRemove ==
    /\ \E old \in ListMemoryPartitions :
          LET r == plRemove(pl, old)
          IN  /\ pl' = r.list
              /\ plResult' = CallResult("remove", r.err, pl, old)
    /\ UNCHANGED <<storageVars, walVars, concVars, stepVars>>

\* A call of swap on the list.
ListSwap ==
    /\ Len(pl.nodes) < MaxNodes
    /\ \E old \in ListMemoryPartitions : \E new \in ListDiskPartitions :
          LET r == plSwap(pl, old, new)
          IN  /\ pl' = r.list
              /\ plResult' = CallResult("swap", r.err, pl, old)
    /\ UNCHANGED <<storageVars, walVars, concVars, stepVars>>

NextList ==
    \/ ListInsert
    \/ ListRemove
    \/ ListSwap

\* The list is used on its own, next to a storage nothing is called on.
InitList ==
    /\ Init
    /\ inMemory = TRUE

SpecList == InitList /\ [][NextList]_vars

\* ---------------------------------------------------------------- properties
\* The ranges a query is made with: start < end.
Ranges ==
    {<<start, end>> \in (0..MaxTimestamp) \X (1..(MaxTimestamp + 1)) :
        start < end}

\* The end of the range [1, WholeEnd) that covers every timestamp a row
\* can have.
WholeEnd == MaxTimestamp + 1

\* The points of pts with start <= Timestamp < end, in the order of pts.
InRange(pts, start, end) ==
    SelectSeq(pts, LAMBDA p : start <= p.Timestamp /\ p.Timestamp < end)

NonDecreasing(pts) ==
    \A i \in 1..(Len(pts) - 1) : pts[i].Timestamp <= pts[i + 1].Timestamp

PointSet(pts) == {pts[i] : i \in 1..Len(pts)}

\* The points a series buffer holds, in order or not.
Buffered(mt) == PointSet(mt.points) \cup PointSet(mt.outOfOrderPoints)

\* The point of the row is held in a series buffer of the partition.
HeldIn(part, row) ==
    /\ part.kind = "mem"
    /\ row.Metric \in DOMAIN part.metrics
    /\ DataPoint(row.Timestamp, row.Value) \in Buffered(part.metrics[row.Metric])

Held(heap, row) == \E i \in 1..Len(heap) : HeldIn(heap[i], row)

\* The InsertRows call of writer w returns from insert() in this step.
InsertReturn(w) == pc[w] = "insert" /\ pc'[w] = "idle"

\* The rows of the call that returns nil in this step.
RowsOfCall == acked' \ acked

\* C1: for every series and every start < end, selectDataPoints on a memory
\* partition returns exactly the in-order points p of the series with
\* start <= p.Timestamp < end, in stored order (so no point with
\* Timestamp = end, and nothing when the range holds no point).
C1_SelectIsHalfOpen ==
    \A i \in 1..Len(parts) :
        parts[i].kind = "mem" =>
            \A metric \in Series : \A rg \in Ranges :
                LET r == memSelectDataPoints(parts[i], metric, rg[1], rg[2])
                    mt == getMetric(parts[i].metrics, metric)[metric]
                IN  /\ r.err = "nil"
                    /\ r.points = InRange(mt.points, rg[1], rg[2])

\* C2: after any sequence of InsertRows calls, the points SelectDataPoints
\* returns for a series are non-decreasing in timestamp. (Only the slots
\* that hold a point are compared.)
C2_SelectIsAscending ==
    phase = "open" =>
        \A metric \in Series : \A rg \in Ranges :
            LET r == SelectDataPoints(partitionList, parts, metric,
                                      rg[1], rg[2])
            IN  r.err = "nil" =>
                    NonDecreasing(SelectSeq(r.points,
                                            LAMBDA p : p # NilPoint))

\* The rows were handed over in ascending timestamp order (the Value of a
\* row is its place in the order of the calls).
Ordered(rows) ==
    \A r1 \in rows : \A r2 \in rows :
        r1.Value < r2.Value => r1.Timestamp < r2.Timestamp

\* C3: in on-disk mode, once Close has returned and a storage was opened on
\* the same data path, every row acknowledged before Close (the rows having
\* been inserted in timestamp order) is returned by SelectDataPoints over
\* the range [1, WholeEnd), which covers every timestamp.
C3_AckedSurvivesReopen ==
    (/\ ~inMemory
     /\ instance > 1
     /\ phase = "open"
     /\ atClose.err = "nil"
     /\ Ordered(atClose.acked)) =>
        \A row \in atClose.acked :
            LET r == SelectDataPoints(partitionList, parts, row.Metric,
                                      1, WholeEnd)
            IN  /\ r.err = "nil"
                /\ DataPoint(row.Timestamp, row.Value) \in PointSet(r.points)

\* The points the data file of a disk partition holds for a series: the
\* NumDataPoints units from Offset on, decoded.
dataFilePoints(d, s) ==
    LET mt == d.meta.Metrics[s]
    IN  [i \in 1..mt.NumDataPoints |->
            IF canRead(d.data, mt.Offset, i)
            THEN readPoint(d.data, mt.Offset, i) ELSE NilPoint]

\* C4: for every series of a flushed memory partition, the data file that
\* flush wrote holds exactly the write sequence of the series, overflow
\* points included, sorted ascending by timestamp.
C4_FlushWritesSortedWriteSequence ==
    \A i \in 1..Len(parts) :
        parts[i].kind = "disk" =>
            \A s \in DOMAIN parts[i].from :
                LET stored == dataFilePoints(parts[i], s)
                IN  /\ s \in DOMAIN parts[i].meta.Metrics
                    /\ NonDecreasing(stored)
                    /\ Len(stored) = Cardinality(Buffered(parts[i].from[s]))
                    /\ PointSet(stored) = Buffered(parts[i].from[s])

\* C5: InsertRows is all-or-nothing for a batch: when it returns nil every
\* row of the batch is held in a series buffer of some partition, when it
\* returns an error no series buffer changes.
C5_InsertRowsAllOrNothing ==
    [][\A w \in Writers :
          InsertReturn(w) =>
              IF returned'.err = "nil"
              THEN \A row \in RowsOfCall : Held(parts', row)
              ELSE \A i \in 1..Len(parts) : parts'[i] = parts[i]]_vars

\* The calls that hold a slot of workersLimitCh and have not returned.
Admitted == {w \in Writers : pc[w] \in {"admitted", "insert"}}

\* C6: at every moment the number of InsertRows calls that were admitted
\* (hold a slot of workersLimitCh) and have not returned is at most the
\* capacity of the semaphore, whatever the number of callers.
C6_AdmissionBound ==
    /\ Cardinality(Admitted) = sem
    /\ Cardinality(Admitted) <= defaultWorkersLimit

\* Every slot is held while another caller waits for one.
C6_Witness ==
    /\ Cardinality(Admitted) = defaultWorkersLimit
    /\ \E w \in Writers : pc[w] = "waiting"

\* C7: an InsertRows call that finds every slot taken and gets none before
\* writeTimeout elapses returns the overloaded error, and no step of that
\* call changes the partition list, a partition (its series buffers, size,
\* minT, maxT) or the data path.
C7_TimeoutChangesNothing ==
    [][\A w \in Writers :
          /\ (pc[w] = "idle" /\ pc'[w] = "waiting") =>
                /\ sem = defaultWorkersLimit
                /\ UNCHANGED <<partitionList, parts, disk>>
          /\ (pc[w] = "waiting" /\ pc'[w] = "idle") =>
                /\ returned' = [writer |-> w, err |-> "overloaded"]
                /\ UNCHANGED <<partitionList, parts, disk>>]_vars

\* A call has timed out on a storage whose head is not active: the call
\* would have got a new partition from getPartition.
C7_Witness ==
    /\ returned.err = "overloaded"
    /\ ~active(parts[partitionList[1]])

IsPrefix(a, b) == Len(a) <= Len(b) /\ SubSeq(b, 1, Len(a)) = a

StrictlyAscending(pts) ==
    \A i \in 1..(Len(pts) - 1) : pts[i].Timestamp < pts[i + 1].Timestamp

\* No SelectDataPoints call returns a point of the overflow region of a
\* memory partition of the list.
NoOverflowReturned ==
    phase = "open" =>
        \A metric \in Series : \A rg \in Ranges :
            LET r == SelectDataPoints(partitionList, parts, metric,
                                      rg[1], rg[2])
            IN  \A i \in 1..Len(partitionList) :
                    LET part == parts[partitionList[i]]
                    IN  part.kind = "mem" =>
                            \A s \in DOMAIN part.metrics :
                                PointSet(r.points) \cap
                                PointSet(part.metrics[s].outOfOrderPoints)
                                    = {}

C9_OutdatedRowGoesToPrevious ==
    [][\A w \in Writers :
          (/\ InsertReturn(w)
           /\ Len(partitionList) >= defaultWritablePartitionsNum
           /\ target[w] = partitionList[1]) =>
              LET head == parts[partitionList[1]]
                  prev == parts[partitionList[2]]
              IN  \A row \in RowsOfCall :
                      (/\ head.once
                       /\ row.Timestamp < head.minT
                       /\ prev.kind = "mem"
                       /\ prev.once
                       /\ prev.minT <= row.Timestamp
                       /\ row.Timestamp <= prev.maxT) =>
                          HeldIn(parts'[partitionList[2]], row)]_vars

\* The timestamp of the row lies in the range of a disk partition of the
\* list.
InFlushedRange(row) ==
    \E i \in 1..Len(partitionList) :
        LET d == parts[partitionList[i]]
        IN  /\ d.kind = "disk"
            /\ d.meta.MinTimestamp <= row.Timestamp
            /\ row.Timestamp <= d.meta.MaxTimestamp

\* C10: a row whose timestamp falls in the range of a partition that was
\* already flushed to disk is dropped: InsertRows returns no error, no
\* series buffer holds the row afterwards and the data path is unchanged.
C10_ExpiredRowIsDropped ==
    [][\A w \in Writers :
          InsertReturn(w) =>
              \A row \in RowsOfCall :
                  InFlushedRange(row) =>
                      /\ returned'.err = "nil"
                      /\ ~Held(parts', row)
                      /\ disk' = disk]_vars

\* C11: when the append to the WAL of a batch fails, insertRows returns that
\* error and leaves the partition as it was: no series buffer, nor numPoints,
\* minT or maxT has changed.
C11_AppendFailureAbortsInsert ==
    [][(nextValue' # nextValue /\ walResult'.op = "append"
            /\ walResult'.err # "nil")
        => (returned'.err = walResult'.err /\ parts' = parts)]_vars

\* A file of the data path holds the point of the row.
OnDisk(row) ==
    \E d \in DOMAIN disk : \E i \in 1..Len(disk[d].data) :
        /\ disk[d].data[i].ts = row.Timestamp
        /\ disk[d].data[i].v = row.Value

\* A query for the timestamp of the row returns its point.
Queryable(row) ==
    LET r == SelectDataPoints(partitionList, parts, row.Metric,
                              row.Timestamp, row.Timestamp + 1)
    IN  /\ r.err = "nil"
        /\ DataPoint(row.Timestamp, row.Value) \in PointSet(r.points)

\* C12: on a data path, once NewStorage has returned after a crash, every
\* row whose InsertRows had returned nil before the crash and whose
\* partition had not been flushed is queryable: NewStorage has replayed the
\* WAL into the head partition.
C12_AckedUnflushedSurvivesCrash ==
    (~inMemory /\ phase = "open" /\ atClose.err = "crash") =>
        \A row \in atClose.acked : ~OnDisk(row) => Queryable(row)

\* C13: on a data path, when Close returns nil every memory partition that
\* was in the list when Close was called has been replaced by a disk
\* partition: the list is then the new partitions Close put at the head,
\* which are memory partitions, followed by disk partitions only.
C13_CloseLeavesOnlyDiskPartitions ==
    [][(~inMemory /\ phase = "open" /\ phase' = "closed"
            /\ atClose'.err = "nil")
        => /\ Len(partitionList') =
                  Len(partitionList) + defaultWritablePartitionsNum
           /\ \A k \in 1..Len(partitionList') :
                  IF k <= defaultWritablePartitionsNum
                  THEN /\ partitionList'[k] > Len(parts)
                       /\ parts'[partitionList'[k]].kind = "mem"
                  ELSE parts'[partitionList'[k]].kind = "disk"]_vars

\* C14: Close does not return while an InsertRows call that started before
\* it is still running, nor while a flushPartitions goroutine started by
\* getPartition is still running.
C14_CloseWaitsForWritersAndFlush ==
    [][(phase = "open" /\ phase' = "closed")
        => /\ \A w \in Writers : pc[w] = "idle"
           /\ flushPending = 0]_vars

\* The points of a series a partition lets a query see: the in-order points
\* of a memory partition, the points of the data file of a disk partition.
VisiblePoints(part, metric) ==
    IF part.kind = "mem"
    THEN IF metric \in DOMAIN part.metrics
         THEN PointSet(part.metrics[metric].points) ELSE {}
    ELSE IF metric \in DOMAIN part.meta.Metrics
         THEN PointSet(dataFilePoints(part, metric)) ELSE {}

\* Some partition of the list holds a visible point of the series whose
\* timestamp lies in [start, end).
SomeVisibleMatch(metric, start, end) ==
    \E k \in 1..Len(partitionList) :
        \E point \in VisiblePoints(parts[partitionList[k]], metric) :
            start <= point.Timestamp /\ point.Timestamp < end

\* C15: SelectDataPoints with start < end never returns ErrNoDataPoints
\* while some partition of the list holds a visible point of the series in
\* [start, end), and never returns an empty slice with a nil error.
C15_ErrNoDataPointsOnlyWhenNoMatch ==
    phase = "open" =>
        \A metric \in Series : \A range \in Ranges :
            LET r == SelectDataPoints(partitionList, parts, metric,
                                      range[1], range[2])
            IN  /\ SomeVisibleMatch(metric, range[1], range[2])
                       => r.err # "ErrNoDataPoints"
                /\ ~(r.err = "nil" /\ r.points = <<>>)

\* C16: insertRows on a disk partition always returns an error and changes
\* nothing, neither the partition nor the list nor the data path; active()
\* of a disk partition is false in every state.
C16_DiskPartitionIsReadOnly ==
    /\ [](\A i \in 1..Len(parts) :
             parts[i].kind = "disk" => ~active(parts[i]))
    /\ [][(returned'.writer = 0 /\ returned' # returned)
            => /\ returned'.err = "can't insert rows into disk partition"
               /\ parts' = parts
               /\ partitionList' = partitionList
               /\ disk' = disk]_vars

\* insertRows was called on a disk partition that holds points.
C16_Witness ==
    /\ returned = [writer |-> 0,
                   err |-> "can't insert rows into disk partition"]
    /\ \E k \in 1..Len(partitionList) :
          /\ parts[partitionList[k]].kind = "disk"
          /\ size(parts[partitionList[k]]) > 0

\* The places of the chain of pl whose partition has the minT of p.
SameMinT(p) ==
    LET c == chain(pl)
    IN  {i \in 1..Len(c) :
            minTimestamp(pl.nodes[c[i]].val) = minTimestamp(p)}

FirstSameMinT(p) == CHOOSE i \in SameMinT(p) : \A j \in SameMinT(p) : i <= j

\* The nodes of the chain c still hold the partitions they held.
SamePartitionsHeld(c) ==
    \A k \in 1..Len(c) : pl'.nodes[c[k]].val = pl.nodes[c[k]].val

\* The step is a call remove(old) on pl.
RemoveCall(old) ==
    /\ pl' = plRemove(pl, old).list
    /\ plResult' = CallResult("remove", plRemove(pl, old).err, pl, old)

\* C17: remove(p) unlinks exactly one node, the first from the head whose
\* partition has the minT of p, decrements size by one and keeps the other
\* nodes in their order; on an empty list or when no node has that minT it
\* returns an error and leaves head, tail, links and size unchanged.
C17_RemoveUnlinksOneNode ==
    [][\A old \in ListMemoryPartitions :
          RemoveCall(old) =>
              LET c == chain(pl)
              IN  IF c = <<>> \/ SameMinT(old) = {}
                  THEN /\ plResult'.err # "nil"
                       /\ pl' = pl
                  ELSE LET i == FirstSameMinT(old)
                           rest == SubSeq(c, 1, i - 1) \o
                                   SubSeq(c, i + 1, Len(c))
                       IN  /\ plResult'.err = "nil"
                           /\ chain(pl') = rest
                           /\ pl'.size = pl.size - 1
                           /\ SamePartitionsHeld(rest)]_vars

\* remove has unlinked a node that was neither the head nor the tail.
C17_Witness ==
    /\ plResult.op = "remove"
    /\ plResult.err = "nil"
    /\ 1 < plResult.at
    /\ plResult.at < plResult.len

\* The step is a call swap(old, new) on pl.
SwapCall(old, new) ==
    /\ pl' = plSwap(pl, old, new).list
    /\ plResult' = CallResult("swap", plSwap(pl, old, new).err, pl, old)

\* C18: swap(old, new) puts new where the first node holding a partition
\* with the minT of old was, between the same predecessor and successor,
\* and leaves size and every other node unchanged; on an empty list or when
\* old is not found it returns an error and leaves the list unchanged.
C18_SwapReplacesInPlace ==
    [][\A old \in ListMemoryPartitions : \A new \in ListDiskPartitions :
          SwapCall(old, new) =>
              LET c == chain(pl)
                  c2 == chain(pl')
              IN  IF c = <<>> \/ SameMinT(old) = {}
                  THEN /\ plResult'.err # "nil"
                       /\ pl' = pl
                  ELSE LET i == FirstSameMinT(old)
                       IN  /\ plResult'.err = "nil"
                           /\ Len(c2) = Len(c)
                           /\ \A k \in 1..Len(c) : k # i => c2[k] = c[k]
                           /\ pl'.nodes[c2[i]].val = new
                           /\ pl'.size = pl.size
                           /\ SamePartitionsHeld(
                                  SubSeq(c, 1, i - 1) \o
                                  SubSeq(c, i + 1, Len(c)))]_vars

\* swap has replaced a node that was neither the head nor the tail.
C18_Witness ==
    /\ plResult.op = "swap"
    /\ plResult.err = "nil"
    /\ 1 < plResult.at
    /\ plResult.at < plResult.len

\* What the reader returns for the segments names[k..] of the WAL directory,
\* read one after the other in the order of their names.
RECURSIVE ReadSegments(_, _)
ReadSegments(names, k) ==
    IF k > Len(names) THEN <<>>
    ELSE diskWALReader(walDir[names[k]]).rows \o ReadSegments(names, k + 1)

\* The rows as the reader hands them back: the metric is the series key.
AsRead(rows) ==
    [i \in 1..Len(rows) |->
        Row(marshalMetricName(rows[i].Metric), rows[i].Timestamp,
            rows[i].Value)]

\* C19: the rows appended to the disk WAL with operationInsert, before and
\* after a punctuate, can be flushed, and once flush has returned the reader
\* returns them from the segments as the same rows (metric, timestamp,
\* value) in the order in which they were appended.
C19_AppendedRowsAreReadBack ==
    walResult.op = "flush" =>
        /\ walResult.err = "nil"
        /\ ReadSegments(sortedKeys(DOMAIN walDir), 1) = AsRead(appended)

\* The names of the segments of the WAL directory.
Segments == DOMAIN walDir

\* C20: truncateOldest deletes exactly the segment with the smallest name
\* and leaves every other segment in place, with what it holds.
C20_TruncateOldestRemovesSmallest ==
    [][(walResult'.op = "truncateOldest" /\ walResult.op # "truncateOldest"
            /\ Segments # {})
        => LET oldest == CHOOSE n \in Segments : \A o \in Segments : n <= o
           IN  /\ DOMAIN walDir' = Segments \ {oldest}
               /\ \A n \in DOMAIN walDir' : walDir'[n] = walDir[n]]_vars

\* C21: in every reachable state at most one partition of the list is
\* active, and a partition that is active is the head of the list.
C21_OnlyHeadIsActive ==
    \A k \in 1..Len(partitionList) :
        active(parts[partitionList[k]]) => k = 1

\* C29: flushPartitions neither replaces nor removes one of the two newest
\* partitions of the list: the first defaultWritablePartitionsNum nodes are
\* the same before and after a run of the goroutine, and after Close they
\* are the partitions Close put at the head.
C29_FlushSparesTwoNewest ==
    [][/\ (flushPending' = flushPending - 1)
            => \A k \in 1..defaultWritablePartitionsNum :
                   k <= Len(partitionList)
                       => /\ k <= Len(partitionList')
                          /\ partitionList'[k] = partitionList[k]
       /\ (phase = "open" /\ phase' = "closed")
            => /\ Len(partitionList') >= defaultWritablePartitionsNum
               /\ \A k \in 1..defaultWritablePartitionsNum :
                      partitionList'[k] =
                          Len(parts) + defaultWritablePartitionsNum + 1 - k
      ]_vars

\* ----------------------------------------- insertRows, one access at a time
\* Several InsertRows calls hold a slot of workersLimitCh at once when the
\* host has more than one CPU. The steps below are those of one insertRows
\* call on the partition mp; each reads or writes shared memory once, or
\* runs what the code runs under one lock.

\* The batches of a call on mp: n rows, valued issued+1.. in turn.
SharedBatches(n) ==
    {[k \in 1..n |-> Row(f[k][1], f[k][2], issued + k)] :
        f \in [1..n -> Series \X Timestamps]}

\* The row the call c is at.
RowOf(c) == calls[c].rows[calls[c].i]

\* The call goes on to its next row, or leaves the loop.
NextRow(call) ==
    IF call.i < Len(call.rows)
    THEN [call EXCEPT !.i = @ + 1, !.pc = "row"]
    ELSE [call EXCEPT !.pc = "count"]

\* getPartition found mp at the head and active, and insertRows is entered
\* with a batch.
CallInsertRows(c) ==
    /\ calls[c].pc = "idle"
    /\ active(mp)
    /\ \E n \in 1..MaxBatch :
          /\ issued + n <= MaxSharedRows
          /\ \E rows \in SharedBatches(n) :
                /\ calls' = [calls EXCEPT ![c] =
                               [idleCall EXCEPT !.pc = "once", !.rows = rows]]
                /\ issued' = issued + n
    /\ UNCHANGED <<mp, inserted>>
    /\ UNCHANGED <<storageVars, walVars, listVars, stepVars>>

\* m.once.Do: the first call stores the smallest timestamp of its rows in
\* minT; a call that comes later returns from Do after that store.
OnceDo(c) ==
    /\ calls[c].pc = "once"
    /\ mp' = IF mp.once THEN mp
             ELSE [mp EXCEPT
                     !.once = TRUE,
                     !.minT = SeqMin([k \in 1..Len(calls[c].rows) |->
                                         calls[c].rows[k].Timestamp])]
    /\ calls' = [calls EXCEPT ![c] =
                    [@ EXCEPT !.pc = "row", !.i = 1,
                              !.maxTimestamp = calls[c].rows[1].Timestamp]]
    /\ UNCHANGED <<inserted, issued>>
    /\ UNCHANGED <<storageVars, walVars, listVars, stepVars>>

\* The head of the loop for one row: an outdated row is put aside; for
\* another row the running maximum is raised and getMetric loads the entry
\* of the series from m.metrics.
LoadMetric(c) ==
    /\ calls[c].pc = "row"
    /\ LET row == RowOf(c)
       IN  IF row.Timestamp < mp.minT
           THEN calls' = [calls EXCEPT ![c] = NextRow(@)]
           ELSE calls' = [calls EXCEPT ![c] =
                    [@ EXCEPT
                       !.maxTimestamp =
                           IF row.Timestamp > @ THEN row.Timestamp ELSE @,
                       !.mt = IF row.Metric \in DOMAIN mp.metrics
                              THEN mp.metrics[row.Metric] ELSE 0,
                       !.pc = IF row.Metric \in DOMAIN mp.metrics
                              THEN "size" ELSE "store"]]
    /\ UNCHANGED <<mp, inserted, issued>>
    /\ UNCHANGED <<storageVars, walVars, listVars, stepVars>>

\* getMetric found no entry: it makes a metric and stores it in m.metrics,
\* whatever the entry is by now.
StoreMetric(c) ==
    /\ calls[c].pc = "store"
    /\ LET name == RowOf(c).Metric
           id == Len(mp.heap) + 1
       IN  /\ mp' = [mp EXCEPT
                       !.heap = Append(@, newMetric),
                       !.metrics = [s \in (DOMAIN @) \cup {name} |->
                                       IF s = name THEN id ELSE @[s]]]
           /\ calls' = [calls EXCEPT ![c] =
                           [@ EXCEPT !.mt = id, !.pc = "size"]]
    /\ UNCHANGED <<inserted, issued>>
    /\ UNCHANGED <<storageVars, walVars, listVars, stepVars>>

\* insertPoint loads m.size, before it takes m.mu.
LoadSize(c) ==
    /\ calls[c].pc = "size"
    /\ calls' = [calls EXCEPT ![c] =
                    [@ EXCEPT !.size = mp.heap[calls[c].mt].size, !.pc = "lock"]]
    /\ UNCHANGED <<mp, inserted, issued>>
    /\ UNCHANGED <<storageVars, walVars, listVars, stepVars>>

\* insertPoint holds m.mu from Lock to the deferred Unlock.
LockedInsert(c) ==
    /\ calls[c].pc = "lock"
    /\ LET row == RowOf(c)
           id == calls[c].mt
       IN  /\ mp' = [mp EXCEPT !.heap[id] =
                        insertPointLocked(@, calls[c].size,
                            DataPoint(row.Timestamp, row.Value))]
           /\ inserted' = inserted \cup
                  {[row |-> row, mt |-> id, active |-> active(mp)]}
    /\ calls' = [calls EXCEPT ![c] = NextRow([@ EXCEPT !.rowsNum = @ + 1])]
    /\ UNCHANGED issued
    /\ UNCHANGED <<storageVars, walVars, listVars, stepVars>>

\* atomic.AddInt64(&m.numPoints, rowsNum)
AddNumPoints(c) ==
    /\ calls[c].pc = "count"
    /\ mp' = [mp EXCEPT !.numPoints = @ + calls[c].rowsNum]
    /\ calls' = [calls EXCEPT ![c] = [@ EXCEPT !.pc = "loadMaxT"]]
    /\ UNCHANGED <<inserted, issued>>
    /\ UNCHANGED <<storageVars, walVars, listVars, stepVars>>

\* atomic.LoadInt64(&m.maxT) < maxTimestamp: the call returns, or goes on
\* to the swap.
LoadMaxT(c) ==
    /\ calls[c].pc = "loadMaxT"
    /\ calls' = [calls EXCEPT ![c] =
                    IF mp.maxT < @.maxTimestamp
                    THEN [@ EXCEPT !.pc = "swapMaxT"]
                    ELSE idleCall]
    /\ UNCHANGED <<mp, inserted, issued>>
    /\ UNCHANGED <<storageVars, walVars, listVars, stepVars>>

\* atomic.SwapInt64(&m.maxT, maxTimestamp), and the return.
SwapMaxT(c) ==
    /\ calls[c].pc = "swapMaxT"
    /\ mp' = [mp EXCEPT !.maxT = calls[c].maxTimestamp]
    /\ calls' = [calls EXCEPT ![c] = idleCall]
    /\ UNCHANGED <<inserted, issued>>
    /\ UNCHANGED <<storageVars, walVars, listVars, stepVars>>

NextShared ==
    \/ \E c \in Callers : CallInsertRows(c)
    \/ \E c \in Callers : OnceDo(c)
    \/ \E c \in Callers : LoadMetric(c)
    \/ \E c \in Callers : StoreMetric(c)
    \/ \E c \in Callers : LoadSize(c)
    \/ \E c \in Callers : LockedInsert(c)
    \/ \E c \in Callers : AddNumPoints(c)
    \/ \E c \in Callers : LoadMaxT(c)
    \/ \E c \in Callers : SwapMaxT(c)

SpecShared == InitList /\ [][NextShared]_vars

\* C22: no row that is not outdated is put in the buffers of a memory
\* partition that is inactive (maxT - minT >= partitionDuration) at the
\* moment insertPoint stores it, also when several callers got the
\* partition from getPartition while it was active.
C22_NoStoreIntoInactive ==
    \A r \in inserted : r.active

\* The largest timestamp among the rows insertPoint was called with.
LargestInserted ==
    CHOOSE t \in {r.row.Timestamp : r \in inserted} :
        \A r \in inserted : r.row.Timestamp <= t

\* No insertRows call is in progress on mp.
Quiescent == \A c \in Callers : calls[c].pc = "idle"

\* C23: once the insertRows calls that ran at once on a memory partition
\* have all returned, maxT is the largest timestamp of the rows they
\* stored, and no step lowers maxT.
C23_MaxTIsLargestAccepted ==
    /\ [](Quiescent /\ inserted # {} => mp.maxT = LargestInserted)
    /\ [][mp'.maxT >= mp.maxT]_vars

\* C24: a memory partition that has stored a row has minT <= maxT (looked
\* at when no insertRows call is in progress on it), and once the first
\* insertRows has set minT no step changes it, also when calls run at once.
C24_MinTFixedAndBelowMaxT ==
    /\ [](Quiescent /\ inserted # {} => mp.minT <= mp.maxT)
    /\ [][mp.once => mp'.minT = mp.minT]_vars

\* C25: the lifecycle of a memory partition is one-way: from a state in
\* which active() is false no step leads to a state in which it is true.
C25_InactiveStaysInactive ==
    [][~active(mp) => ~active(mp')]_vars

\* C26: the in-order points of every metric of the partition are
\* non-decreasing in timestamp in every state, and a step only appends to
\* them, also when insertPoint calls run at once.
C26_PointsStayOrdered ==
    /\ [](\A id \in 1..Len(mp.heap) : NonDecreasing(mp.heap[id].points))
    /\ [][\A id \in 1..Len(mp.heap) :
              IsPrefix(mp.heap[id].points, mp'.heap[id].points)]_vars

\* C27: getting or creating the metric of a series is atomic: every row a
\* call stored for a series was stored in the one metric m.metrics holds
\* for that series, so no stored point is lost.
C27_OneMetricPerSeries ==
    \A r \in inserted :
        /\ r.row.Metric \in DOMAIN mp.metrics
        /\ mp.metrics[r.row.Metric] = r.mt
        /\ DataPoint(r.row.Timestamp, r.row.Value)
               \in Buffered(mp.heap[mp.metrics[r.row.Metric]])

\* ------------------------------------------- insert, one access at a time
\* getPartition calls insert from every InsertRows call that found the head
\* inactive. The steps below are those of one insert call on the list pl.

\* insert makes its node, reads p.head under the read lock and points the
\* node to it.
InsertReadHead(c) ==
    /\ inserting[c].pc = "idle"
    /\ Len(pl.nodes) < MaxNodes
    /\ \E partition \in ListMemoryPartitions :
          pl' = [pl EXCEPT !.nodes =
                    Append(@, [val |-> partition, next |-> pl.head])]
    /\ inserting' = [inserting EXCEPT ![c] =
                        [pc |-> "setHead", node |-> Len(pl.nodes) + 1]]
    /\ UNCHANGED <<plResult, runs, appendVars, selecting>>
    /\ UNCHANGED <<storageVars, walVars, concVars>>

\* p.setHead(node), under the write lock.
InsertSetHead(c) ==
    /\ inserting[c].pc = "setHead"
    /\ pl' = [pl EXCEPT !.head = inserting[c].node]
    /\ inserting' = [inserting EXCEPT ![c] = [@ EXCEPT !.pc = "addSize"]]
    /\ UNCHANGED <<plResult, runs, appendVars, selecting>>
    /\ UNCHANGED <<storageVars, walVars, concVars>>

\* atomic.AddInt64(&p.size, 1), and the return.
InsertAddSize(c) ==
    /\ inserting[c].pc = "addSize"
    /\ pl' = [pl EXCEPT !.size = @ + 1]
    /\ inserting' = [inserting EXCEPT ![c] = idleInsert]
    /\ UNCHANGED <<plResult, runs, appendVars, selecting>>
    /\ UNCHANGED <<storageVars, walVars, concVars>>

NextListShared ==
    \/ \E c \in Callers : InsertReadHead(c)
    \/ \E c \in Callers : InsertSetHead(c)
    \/ \E c \in Callers : InsertAddSize(c)

SpecListShared == InitList /\ [][NextListShared]_vars

\* C28: insert calls that run at once lose no partition: once they have all
\* returned, the node of every one of them is reached from the head, and
\* size is the number of the calls.
C28_ConcurrentInsertsKeepAll ==
    (\A c \in Callers : inserting[c].pc = "idle")
        => /\ {chain(pl)[k] : k \in 1..Len(chain(pl))} = 1..Len(pl.nodes)
           /\ pl.size = Len(pl.nodes)

\* ---------------------------------- flushPartitions, one node at a time
\* Every getPartition that puts a new head starts a goroutine that runs
\* flushPartitions; nothing keeps two of them from running at once. The
\* list is pl; a node holds its partition, so a row stored in the head
\* partition changes the partition of the head node.

\* NewStorage puts the first memory partition in the list.
FlushNewStorage ==
    /\ pl.head = 0
    /\ pl.nodes = <<>>
    /\ pl' = plInsert(pl, newMemoryPartition)
    /\ UNCHANGED <<plResult, inserting, runs, appendVars, selecting>>
    /\ UNCHANGED <<storageVars, walVars, concVars>>

\* An InsertRows call with one row, calls running one after the other and
\* rows coming in the order of their timestamps: getPartition gives the head
\* when it is active, and otherwise puts a new partition at the head and
\* starts a goroutine.
FlushInsertRows ==
    /\ pl.head # 0
    /\ LET head == pl.nodes[pl.head].val
       IN  \E ts \in Timestamps :
              LET rows == <<Row(1, ts, ts)>>
              IN  IF active(head)
                  THEN /\ head.numPoints < MaxBatch
                       /\ ts >= head.maxT
                       /\ pl' = [pl EXCEPT !.nodes[pl.head].val =
                                    insertRows(head, rows).part]
                       /\ UNCHANGED flushPending
                  ELSE /\ Len(pl.nodes) < MaxFlushNodes
                       /\ ts >= head.maxT
                       /\ pl' = plInsert(pl,
                                  insertRows(newMemoryPartition, rows).part)
                       /\ flushPending' = flushPending + 1
    /\ UNCHANGED <<plResult, inserting, runs, appendVars, selecting>>
    /\ UNCHANGED <<inMemory, partitionList, parts, disk, sem, pc, target,
                   returned, phase, instance, nextValue, acked, atClose>>
    /\ UNCHANGED <<walVars, concVars>>

\* A goroutine enters flushPartitions: i := 0 and newIterator, whose dummy
\* node points to the head of that moment.
RunStart(f) ==
    /\ runs[f].pc = "idle"
    /\ flushPending > 0
    /\ flushPending' = flushPending - 1
    /\ runs' = [runs EXCEPT ![f] =
                   [pc |-> "next", i |-> 0, current |-> -1,
                    dummyNext |-> pl.head]]
    /\ UNCHANGED <<pl, plResult, inserting, appendVars, selecting>>
    /\ UNCHANGED <<inMemory, partitionList, parts, disk, sem, pc, target,
                   returned, phase, instance, nextValue, acked, atClose>>
    /\ UNCHANGED <<walVars, concVars>>

\* iterator.next() and the body of the loop up to s.flush: the run returns
\* at the end of the list, skips the first defaultWritablePartitionsNum
\* nodes and the disk partitions, removes the partition in memory mode, and
\* otherwise begins to write the partition to its directory.
RunNext(f) ==
    /\ runs[f].pc = "next"
    /\ LET run == runs[f]
           next == IF run.current = -1 THEN run.dummyNext
                   ELSE pl.nodes[run.current].next
           part == pl.nodes[next].val
       IN  IF next = 0
           THEN /\ runs' = [runs EXCEPT ![f] = idleRun]
                /\ UNCHANGED pl
           ELSE IF run.i < defaultWritablePartitionsNum
           THEN /\ runs' = [runs EXCEPT ![f] =
                              [run EXCEPT !.i = @ + 1, !.current = next]]
                /\ UNCHANGED pl
           ELSE IF part.kind # "mem"
           THEN /\ runs' = [runs EXCEPT ![f] = [run EXCEPT !.current = next]]
                /\ UNCHANGED pl
           ELSE IF inMemory
           THEN LET r == plRemove(pl, part)
                IN  /\ pl' = r.list
                    /\ runs' = [runs EXCEPT ![f] =
                                  IF r.err # "nil" THEN idleRun
                                  ELSE [run EXCEPT !.current = next]]
           ELSE /\ runs' = [runs EXCEPT ![f] =
                              [run EXCEPT !.current = next,
                                          !.pc = "flushing"]]
                /\ UNCHANGED pl
    /\ UNCHANGED <<plResult, inserting, appendVars, selecting>>
    /\ UNCHANGED <<storageVars, walVars, concVars>>

\* s.flush has written the directory; openDiskPartition and swap follow.
RunFlushed(f) ==
    /\ runs[f].pc = "flushing"
    /\ LET part == pl.nodes[runs[f].current].val
           dir == dirName(part)
           files == flush(part)
           newPart == openDiskPartition(dir, files, part.metrics)
           r == plSwap(pl, part, newPart)
       IN  /\ disk' = [d \in (DOMAIN disk) \cup {dir} |->
                          IF d = dir THEN files ELSE disk[d]]
           /\ pl' = r.list
           /\ runs' = [runs EXCEPT ![f] =
                          IF r.err # "nil" THEN idleRun
                          ELSE [@ EXCEPT !.pc = "next"]]
    /\ UNCHANGED <<plResult, inserting, appendVars, selecting>>
    /\ UNCHANGED <<inMemory, partitionList, parts, sem, pc, target, returned,
                   flushPending, phase, instance, nextValue, acked, atClose>>
    /\ UNCHANGED <<walVars, concVars>>

NextFlush ==
    \/ FlushNewStorage
    \/ FlushInsertRows
    \/ \E f \in Flushers : RunStart(f)
    \/ \E f \in Flushers : RunNext(f)
    \/ \E f \in Flushers : RunFlushed(f)

SpecFlush == Init /\ [][NextFlush]_vars

\* C30: no memory partition is flushed by two flushPartitions runs at the
\* same time: two runs are never both writing the partition of one node.
C30_OneFlushPerPartition ==
    \A f, g \in Flushers :
        (/\ f # g
         /\ runs[f].pc = "flushing"
         /\ runs[g].pc = "flushing")
            => runs[f].current # runs[g].current

\* The step is a call insertRows(rows) on the memory partition parts[1].
InsertRowsCall(rows) ==
    /\ parts' = [parts EXCEPT ![1] = insertRows(parts[1], rows).part]
    /\ acked' = acked \cup RowSet(rows)
    /\ nextValue' = nextValue + Len(rows)

\* The point of the row is in some series buffer of the partition m.
InSomeBuffer(m, row) ==
    \E s \in DOMAIN m.metrics :
        DataPoint(row.Timestamp, row.Value) \in Buffered(m.metrics[s])

\* C33: insertRows returns as outdated exactly the rows of the batch whose
\* timestamp is lower than minT, which the first batch fixed as its smallest
\* timestamp, and stores every other row in the buffer of its series; an
\* outdated row enters no buffer of the partition.
C33_OutdatedRowsAreExactlyThoseBelowMinT ==
    [][\A n \in 1..MaxBatch : \A rows \in Batches(n) :
          InsertRowsCall(rows) =>
              LET m == parts[1]
                  r == insertRows(m, rows)
                  minT == parts'[1].minT
              IN  /\ minT = IF m.once THEN m.minT
                            ELSE SeqMin([k \in 1..n |-> rows[k].Timestamp])
                  /\ r.err = "nil"
                  /\ r.outdatedRows =
                         SelectSeq(rows, LAMBDA row : row.Timestamp < minT)
                  /\ \A k \in 1..n :
                        IF rows[k].Timestamp < minT
                        THEN ~InSomeBuffer(parts'[1], rows[k])
                        ELSE /\ rows[k].Metric \in DOMAIN parts'[1].metrics
                             /\ DataPoint(rows[k].Timestamp, rows[k].Value)
                                  \in Buffered(
                                        parts'[1].metrics[rows[k].Metric])
      ]_vars

\* insertRows has returned a row as outdated and has stored another row.
C33_Witness ==
    /\ parts[1].once
    /\ \E row \in acked :
          /\ row.Timestamp < parts[1].minT
          /\ ~InSomeBuffer(parts[1], row)
    /\ \E row \in acked : InSomeBuffer(parts[1], row)

\* The number of points the series keys[k..] of the partition m hold, in
\* order or not.
RECURSIVE HeldFrom(_, _, _)
HeldFrom(m, keys, k) ==
    IF k > Len(keys) THEN 0
    ELSE Len(m.metrics[keys[k]].points)
             + Len(m.metrics[keys[k]].outOfOrderPoints)
             + HeldFrom(m, keys, k + 1)

HeldPoints(m) == HeldFrom(m, sortedKeys(DOMAIN m.metrics), 1)

\* C34: after any sequence of insertRows calls on a memory partition, size()
\* is the sum over its series of the number of points the series holds;
\* the rows returned as outdated are not counted.
C34_SizeIsSumOfSeries ==
    \A i \in 1..Len(parts) :
        parts[i].kind = "mem" => size(parts[i]) = HeldPoints(parts[i])

\* The partition holds an out-of-order point, and has returned a row as
\* outdated.
C34_Witness ==
    /\ size(parts[1]) >= 2
    /\ \E s \in DOMAIN parts[1].metrics :
          parts[1].metrics[s].outOfOrderPoints # <<>>
    /\ \E row \in acked :
          /\ row.Timestamp < parts[1].minT
          /\ ~InSomeBuffer(parts[1], row)

\* C35: for every series buffer, after every insertPoint, the count the
\* metric keeps (size) is len(points) + len(outOfOrderPoints).
C35_MetricSizeCountsAllPoints ==
    \A i \in 1..Len(parts) :
        parts[i].kind = "mem" =>
            \A s \in DOMAIN parts[i].metrics :
                parts[i].metrics[s].size =
                    Len(parts[i].metrics[s].points)
                        + Len(parts[i].metrics[s].outOfOrderPoints)

\* C36: after any sequence of insert, remove and swap calls on the list,
\* size is the number of nodes reached from head, and tail is the last of
\* them (nil when the list is empty).
C36_SizeAndTailMatchChain ==
    LET c == chain(pl)
    IN  /\ pl.size = Len(c)
        /\ pl.tail = IF c = <<>> THEN 0 ELSE c[Len(c)]

\* C37: every admitted InsertRows call gives its slot of workersLimitCh
\* back exactly once before it returns, also when p.insertRows fails:
\* the return of an admitted call lowers the number of held slots by one,
\* and no slot is held when no InsertRows call is in progress.
C37_SlotReleasedOnReturn ==
    /\ []((\A w \in Writers : pc[w] = "idle") => sem = 0)
    /\ [][\A w \in Writers :
              (pc[w] = "insert" /\ pc'[w] = "idle") => sem' = sem - 1]_vars

\* An admitted call has returned the error of p.insertRows, and no call is
\* in progress.
C37_Witness ==
    /\ returned.err = "failed to insert rows"
    /\ \A w \in Writers : pc[w] = "idle"
    /\ sem = 0

\* C32: in every reachable state, right after getPartition has put a new
\* head on the list included, the partitions of the list are ordered by
\* maxTimestamp from the head on: the maxTimestamp of a node is at least
\* that of its next node.
C32_ListOrderedByMaxTimestamp ==
    \A i \in 1..(Len(partitionList) - 1) :
        maxTimestamp(parts[partitionList[i]])
            >= maxTimestamp(parts[partitionList[i + 1]])

\* The series holds no point in the memory partition: it has no entry in
\* the metrics map, or an entry with empty buffers.
HoldsNoPoint(m, metric) ==
    \/ metric \notin DOMAIN m.metrics
    \/ Buffered(m.metrics[metric]) = {}

\* C39: selectDataPoints on a memory partition, for a series that holds no
\* point in it, changes nothing in the partition: the metrics map, the
\* size, the minimum and the maximum timestamp are the same after the call
\* as before it.
C39_SelectOfEmptySeriesChangesNothing ==
    \A i \in 1..Len(parts) : \A metric \in Series : \A rg \in Ranges :
        (parts[i].kind = "mem" /\ HoldsNoPoint(parts[i], metric))
            => LET after == memSelectDataPoints(parts[i], metric,
                                                rg[1], rg[2]).part
               IN  /\ after.metrics = parts[i].metrics
                   /\ size(after) = size(parts[i])
                   /\ minTimestamp(after) = minTimestamp(parts[i])
                   /\ maxTimestamp(after) = maxTimestamp(parts[i])

\* No row was ever given to a storage on the data path.
NeverReceivedARow == nextValue = 0 /\ acked = {}

recordWrites(row) ==
    LET name == marshalMetricName(row.Metric)
    IN  << <<operationInsert>>, <<Len(name)>>, name,
           <<row.Timestamp>>, <<row.Value>> >>

RECURSIVE batchWrites(_)
batchWrites(rows) ==
    IF rows = <<>> THEN <<>>
    ELSE recordWrites(Head(rows)) \o batchWrites(Tail(rows))

\* The batches of an append call: n rows, valued issued+1.. in turn.
AppendBatches(n) ==
    {[k \in 1..n |-> Row(f[k][1], f[k][2], issued + k)] :
        f \in [1..n -> Series \X (1..MaxTimestampOne)]}

\* append is called with a batch: the receiver is copied from the diskWAL.
AppendCall(c) ==
    /\ appending[c].pc = "idle"
    /\ \E n \in 1..MaxBatch :
          /\ issued + n <= MaxSharedRows
          /\ \E rows \in AppendBatches(n) :
                /\ appending' = [appending EXCEPT ![c] =
                                    [pc |-> "lock", rows |-> rows, i |-> 0,
                                     mu |-> wal.mu]]
                /\ issued' = issued + n
    /\ UNCHANGED <<mp, calls, inserted, inserting, runs, batches,
                   selecting>>
    /\ UNCHANGED <<storageVars, walVars, listVars>>

\* w.mu.Lock() on the mutex of the receiver.
AppendLock(c) ==
    /\ appending[c].pc = "lock"
    /\ ~appending[c].mu
    /\ appending' = [appending EXCEPT ![c] =
                        [appending[c] EXCEPT !.mu = TRUE, !.pc = "write"]]
    /\ UNCHANGED <<concVars, inserting, runs, batches, selecting>>
    /\ UNCHANGED <<storageVars, walVars, listVars>>

\* The next Write call of the loop over the rows. An error ends the call;
\* after the last write the call flushes when bufferedSize is 0, and
\* returns nil else. The return unlocks the mutex of the receiver, which is
\* gone with the receiver.
AppendWrite(c) ==
    /\ appending[c].pc = "write"
    /\ LET writes == batchWrites(appending[c].rows)
           r == writeBytes(wal, walDir, writes[appending[c].i + 1])
       IN  /\ wal' = r.w
           /\ walDir' = r.dir
           /\ IF r.err # "nil"
              THEN /\ appending' = [appending EXCEPT ![c] = idleAppend]
                   /\ walResult' = [op |-> "append", err |-> r.err]
                   /\ UNCHANGED batches
              ELSE IF appending[c].i + 1 < Len(writes)
              THEN /\ appending' = [appending EXCEPT ![c] =
                                      [appending[c] EXCEPT !.i = @ + 1]]
                   /\ UNCHANGED <<walResult, batches>>
              ELSE IF wal.bufferedSize = 0
              THEN /\ appending' = [appending EXCEPT ![c] =
                                      [appending[c] EXCEPT !.pc = "flush"]]
                   /\ UNCHANGED <<walResult, batches>>
              ELSE /\ appending' = [appending EXCEPT ![c] = idleAppend]
                   /\ walResult' = [op |-> "append", err |-> "nil"]
                   /\ batches' = batches \cup {appending[c].rows}
    /\ UNCHANGED <<concVars, inserting, runs, selecting>>
    /\ UNCHANGED <<storageVars, clock, appended, listVars>>

\* return w.flush() of a diskWAL with bufferedSize 0.
AppendFlush(c) ==
    /\ appending[c].pc = "flush"
    /\ LET r == diskWALflush(wal, walDir)
       IN  /\ wal' = r.w
           /\ walDir' = r.dir
           /\ walResult' = [op |-> "append", err |-> r.err]
           /\ batches' = IF r.err = "nil"
                         THEN batches \cup {appending[c].rows}
                         ELSE batches
    /\ appending' = [appending EXCEPT ![c] = idleAppend]
    /\ UNCHANGED <<concVars, inserting, runs, selecting>>
    /\ UNCHANGED <<storageVars, clock, appended, listVars>>

NextAppend ==
    \/ \E c \in Callers : AppendCall(c)
    \/ \E c \in Callers : AppendLock(c)
    \/ \E c \in Callers : AppendWrite(c)
    \/ \E c \in Callers : AppendFlush(c)

SpecAppend == InitWAL /\ [][NextAppend]_vars

\* What was written to the segment of the diskWAL so far: the file, then
\* what the writer still buffers.
Written == walDir[wal.fd] \o wal.buf

\* The batches of S in every order.
Orders(S) ==
    {o \in [1..Cardinality(S) -> S] :
        \A i, j \in 1..Cardinality(S) : o[i] = o[j] => i = j}

RECURSIVE ConcatBatches(_)
ConcatBatches(o) ==
    IF o = <<>> THEN <<>>
    ELSE batchBytes(Head(o)) \o ConcatBatches(Tail(o))

\* C38: records written by append calls that run at the same time on one
\* diskWAL are never interleaved in the segment: the calls are serialized by
\* the mutex of the diskWAL, so once they have returned the segment is the
\* concatenation of their whole batches, in some order.
C38_SegmentIsConcatenationOfBatches ==
    (\A c \in Callers : appending[c].pc = "idle")
        => \E o \in Orders(batches) : Written = ConcatBatches(o)


\* --------------------------- SelectDataPoints while partitions are flushed
\* SelectDataPoints walks the list with an iterator while flushPartitions
\* runs swap partitions of it; a step is one turn of its loop.

\* SelectDataPoints is called with a range start < end: newIterator makes
\* the dummy node, which points to the head of that moment.
SelectStart ==
    /\ selecting.pc \in {"idle", "done"}
    /\ pl.head # 0
    /\ \E rg \in Ranges :
          selecting' = [idleSelect EXCEPT
                          !.pc = "next", !.start = rg[1], !.end = rg[2],
                          !.current = -1, !.dummyNext = pl.head,
                          !.chain0 = chain(pl)]
    /\ UNCHANGED <<pl, plResult, inserting, runs, appendVars>>
    /\ UNCHANGED <<storageVars, walVars, concVars>>

\* What the call returns with the points it has gathered.
selectReturn(sel) ==
    [sel EXCEPT !.pc = "done",
                !.err = IF Len(sel.points) = 0 THEN "ErrNoDataPoints"
                        ELSE "nil"]

\* iterator.next() and the body of the loop: the end of the list and a
\* partition that ends before start end the walk, a partition that begins
\* after end is passed over, and selectDataPoints is called on any other;
\* its error ends the call, its points are put before those gathered.
SelectNext ==
    /\ selecting.pc = "next"
    /\ LET sel == selecting
           next == IF sel.current = -1 THEN sel.dummyNext
                   ELSE pl.nodes[sel.current].next
           part == pl.nodes[next].val
           r == IF part.kind = "mem"
                THEN memSelectDataPoints(part, 1, sel.start, sel.end)
                ELSE diskSelectDataPoints(part, 1, sel.start, sel.end)
           seen == Append(sel.visited,
                          [node |-> next, points |-> r.points,
                           err |-> r.err])
       IN  IF next = 0
           THEN /\ selecting' = selectReturn(sel)
                /\ UNCHANGED pl
           ELSE IF maxTimestamp(part) < sel.start
           THEN /\ selecting' = selectReturn(sel)
                /\ UNCHANGED pl
           ELSE IF minTimestamp(part) > sel.end
           THEN /\ selecting' = [sel EXCEPT !.current = next]
                /\ UNCHANGED pl
           ELSE /\ pl' = IF part.kind = "mem"
                         THEN [pl EXCEPT !.nodes[next].val = r.part]
                         ELSE pl
                /\ selecting' =
                      IF r.err # "nil"
                      THEN [sel EXCEPT
                              !.pc = "done", !.points = <<>>,
                              !.err = "failed to select data points",
                              !.current = next, !.visited = seen]
                      ELSE [sel EXCEPT
                              !.current = next, !.visited = seen,
                              !.points = r.points \o sel.points]
    /\ UNCHANGED <<plResult, inserting, runs, appendVars>>
    /\ UNCHANGED <<storageVars, walVars, concVars>>

NextSelect ==
    \/ NextFlush
    \/ SelectStart
    \/ SelectNext

SpecSelect == Init /\ [][NextSelect]_vars

\* The partition of node n is the disk partition written from the memory
\* partition of node m.
IsReplacement(n, m) ==
    /\ pl.nodes[n].val.kind = "disk"
    /\ pl.nodes[m].val.kind = "mem"
    /\ pl.nodes[n].val.dirPath = dirName(pl.nodes[m].val)
    /\ pl.nodes[n].val.from = pl.nodes[m].val.metrics

\* The call never reads a memory partition and its disk replacement both.
NeverBoth ==
    \A i, j \in 1..Len(selecting.visited) :
        ~IsReplacement(selecting.visited[i].node, selecting.visited[j].node)

\* On a storage with a data path, where partitions are swapped and never
\* removed, a call over the whole range that came to the end of the list
\* has read every node the list had when it began, or the replacement of
\* the node.
NeverNeither ==
    (/\ ~inMemory
     /\ selecting.pc = "done"
     /\ selecting.err # "failed to select data points"
     /\ selecting.start = 0 /\ selecting.end = WholeEnd)
        => \A k \in 1..Len(selecting.chain0) :
              \E i \in 1..Len(selecting.visited) :
                 \/ selecting.visited[i].node = selecting.chain0[k]
                 \/ IsReplacement(selecting.visited[i].node,
                                  selecting.chain0[k])

\* What the call got from a disk partition is what the memory partition it
\* was written from gives for the range.
SameFromDisk ==
    \A i \in 1..Len(selecting.visited) :
        LET v == selecting.visited[i]
            d == pl.nodes[v.node].val
        IN  d.kind = "disk"
               => /\ v.err = "nil"
                  /\ v.points = memSelectDataPoints(
                                    [metrics |-> d.from], 1,
                                    selecting.start, selecting.end).points

\* C31: a SelectDataPoints that runs while a flushed memory partition is
\* swapped reads that position of the list from exactly one of the memory
\* partition and its disk replacement, never from both and never from
\* neither, and the in-order points it gets for the range are the same in
\* both cases.
C31_SelectReadsOneOfMemoryAndDisk ==
    /\ NeverBoth
    /\ NeverNeither
    /\ SameFromDisk

====
